---- MODULE Spec2Model ----
(***************************************************************************)
(* A model of the build/run/test result pipeline of xcode-mcp-server:      *)
(* the artifact locator and the console extractor of utils/xcresult.py,    *)
(* the build-log classifier, and the tools run_project, run_project_tests  *)
(* and get_runtime_output that sequence them.                              *)
(*                                                                         *)
(* Conventions.  Text is a sequence of one-character strings.  A Python    *)
(* value that may be an int, a str or None is a record [t, n, s].  Time is *)
(* a whole number of seconds.  The files of DerivedData are a fixed set of *)
(* paths; fs gives, for each, whether it exists and its two timestamps.    *)
(*                                                                         *)
(* Assumptions.  Outside SpecAccess the project path passes validation;    *)
(* a project path is absolute, without "." or ".." components.  No bundle  *)
(* is deleted while a call runs and the enumeration of DerivedData does    *)
(* not fail.                                                               *)
(* Each console item holds one line of text.  The notifications the tools  *)
(* show are left out.  The order of os.listdir is chosen anew at each      *)
(* scan.  The text AppleScript gives for an action result holds no "|".    *)
(***************************************************************************)
EXTENDS Integers, Sequences, FiniteSets, TLC

\* ------------------------------------------------------------------ bounds

\* Timestamps a file of the standalone locator runs may carry: 0..MaxFileTime.
MaxFileTime == 2
\* The wall-clock time at which the call of the behaviour is made; the files
\* earlier runs left carry times up to it.
CallTime == 1
\* Largest timeout_seconds / wait_seconds / max_wait_seconds a caller passes.
MaxWait == 2

\* Largest wait_seconds / max_wait_seconds an action of the IDE is given.
MaxActionWait == 1

\* Longest time, past the script's fixed delays, the document takes to load.
MaxLoadWait == 0

\* How many lines past the display cap one run of equal log lines may go.
MaxOver == 0
\* Longest of the short build logs.
MaxShortLog == 3
\* Most lines a test log holds.
MaxTestLogLines == 3
\* Passes of build_project's completion loop the model counts; the loop
\* itself has no bound.
MaxBuildPolls == 2
\* Most content items a bundle's console log holds.
MaxItems == 3
\* Largest max_lines a caller passes.
MaxLines == 2

\* ------------------------------------------------------------ text helpers

None == "None"

StartsWith(s, p) == Len(s) >= Len(p) /\ SubSeq(s, 1, Len(p)) = p

EndsWith(s, p) == Len(s) >= Len(p) /\ SubSeq(s, Len(s) - Len(p) + 1, Len(s)) = p

Max2(a, b) == IF a >= b THEN a ELSE b

Min2(a, b) == IF a <= b THEN a ELSE b

IsSpace(c) == c \in {" ", "\n", "\t"}

\* str.strip()
RECURSIVE LStrip(_)
LStrip(s) == IF s # <<>> /\ IsSpace(Head(s)) THEN LStrip(Tail(s)) ELSE s

RECURSIVE RStrip(_)
RStrip(s) ==
    IF s # <<>> /\ IsSpace(s[Len(s)]) THEN RStrip(SubSeq(s, 1, Len(s) - 1)) ELSE s

Strip(s) == RStrip(LStrip(s))

\* p in s
Contains(s, p) ==
    \E i \in 1..(Len(s) - Len(p) + 1) : \A k \in 1..Len(p) : s[i + k - 1] = p[k]

\* "\n".join(lines)
RECURSIVE JoinLines(_)
JoinLines(lines) ==
    IF lines = <<>> THEN <<>>
    ELSE IF Len(lines) = 1 THEN lines[1]
    ELSE lines[1] \o <<"\n">> \o JoinLines(Tail(lines))

\* text.split(sep) for a one-character sep: the pieces between separators.
RECURSIVE SplitAt(_, _, _)
SplitAt(text, sep, piece) ==
    IF text = <<>> THEN <<piece>>
    ELSE IF Head(text) = sep THEN <<piece>> \o SplitAt(Tail(text), sep, <<>>)
    ELSE SplitAt(Tail(text), sep, Append(piece, Head(text)))

Split(text, sep) == SplitAt(text, sep, <<>>)

\* str.splitlines(): no piece for an empty text or after a final line break.
SplitLines(text) ==
    IF text = <<>> THEN <<>>
    ELSE LET pieces == Split(text, "\n")
         IN  IF pieces[Len(pieces)] = <<>>
             THEN SubSeq(pieces, 1, Len(pieces) - 1) ELSE pieces

\* --------------------------------------------------- the DerivedData tree

\* The project every call of the model names: .../App.xcodeproj
TheProject == [stem |-> <<"A", "p", "p">>, ext |-> ".xcodeproj"]

\* os.path.basename(realpath).replace('.xcworkspace','').replace('.xcodeproj','')
ProjectName(project_path) == project_path.stem

\* The entries of ~/Library/Developer/Xcode/DerivedData.
DirIds == {"d1", "d2", "d3"}

DirName(d) ==
    CASE d = "d1" -> <<"A", "p", "p", "-", "a">>
      [] d = "d2" -> <<"A", "p", "p", "-", "b">>
      [] d = "d3" -> <<"A", "p", "p", "l", "e", "-", "c">>

\* Every order os.listdir may enumerate the entries in.
Listings ==
    {<<a, b, c>> : a \in DirIds, b \in DirIds, c \in DirIds} \cap
    {s \in [1..3 -> DirIds] : \A i, j \in 1..3 : i # j => s[i] # s[j]}

\* The files under <dir>/Logs/{Launch,Test}.
LaunchBundles == {"a1", "b1", "b2"}
TestBundles == {"ta", "tb", "tc"}
OtherFiles == {"x1", "m1"}
Files == LaunchBundles \cup TestBundles \cup OtherFiles

FileDir(f) ==
    CASE f \in {"a1", "ta", "m1"} -> "d1"
      [] f \in {"b1", "b2", "tb", "tc"} -> "d2"
      [] f = "x1" -> "d3"

FileKind(f) == IF f \in TestBundles THEN "Test" ELSE "Launch"

\* The file's name; FileRank orders the full paths of one directory.
FileName(f) ==
    IF f = "m1" THEN <<"m", ".", "p", "l", "i", "s", "t">>
    ELSE <<"r">> \o <<".", "x", "c", "r", "e", "s", "u", "l", "t">>

FileRank(f) ==
    CASE f \in {"a1", "b1", "ta", "tb", "x1"} -> 1
      [] f \in {"b2", "tc"} -> 2
      [] f = "m1" -> 0

NoFile == [exists |-> FALSE, ctime |-> 0, mtime |-> 0]

FileAt(c, m) == [exists |-> TRUE, ctime |-> c, mtime |-> m]

\* ----------------------------------------------------------- Python values

\* A value that may be an int, a str or None, as Python passes it around.
PyNone == [t |-> "none", n |-> 0, s |-> <<>>]

PyInt(n) == [t |-> "int", n |-> n, s |-> <<>>]

PyStr(s) == [t |-> "str", n |-> 0, s |-> s]

PyBool(b) == [t |-> "bool", n |-> IF b THEN 1 ELSE 0, s |-> <<>>]

\* bool(x)
Truthy(x) ==
    CASE x.t = "none" -> FALSE
      [] x.t \in {"int", "bool"} -> x.n # 0
      [] x.t = "str" -> x.s # <<>>

\* stdout of xcresulttool: JSON with an items list, or text that is no JSON.
NoStdout == [json |-> FALSE, items |-> <<>>]

\* (success, console_output) of the extractor, before any call of it.
NoExt == [ok |-> FALSE, msg |-> "", cause |-> "", lines |-> <<>>]

\* The return value of an entry point, before it returns.
NoResult == [kind |-> "", status |-> <<>>, lines |-> <<>>, n |-> 0]

\* The IDE's action result before any action was started.
NoIde == [started |-> FALSE, completed |-> FALSE, status |-> <<>>]

\* The classifier's report before any call of it.
NoReport ==
    [headline |-> "", total_errors |-> 0, total_warnings |-> 0, note |-> "",
     note_errors |-> 0, note_warnings |-> 0, listed |-> <<>>]

\* --------------------------------------------------------------- variables

VARIABLES
    tool,             \* the entry point this behaviour runs
    pc,               \* its position
    now,              \* time.time(), in whole seconds
    fs,               \* the files: [Files -> NoFile or FileAt(c, m)]
    ide,              \* the IDE's scheme action result
    wait_seconds,     \* wait_seconds, max_wait_seconds or timeout_seconds
    max_lines,        \* the caller's max_lines
    regex_filter,     \* the caller's regex_filter
    start_timestamp,  \* start_time of run_project / the locator's argument
    invoked_at,       \* history: the time the action script was handed over
    script,           \* the wait section the action script was built with
    poll_i,           \* iterations the action script's poll loop has made
    output,           \* text the action script returned
    completed,        \* completed, as the tool parsed it
    final_status,     \* status, as the tool parsed it
    end_time,         \* wait_for_xcresult_after_timestamp: end_time
    xcresult_path,    \* the path the last scan returned, or None
    mod_time,         \* os.path.getmtime(xcresult_path) as last read
    create_time,      \* os.path.getctime(xcresult_path) as last read
    located,          \* the path the tool got from its locator, or None
    ext_max_lines,    \* extractor's parameter max_lines
    ext_regex_filter, \* extractor's parameter regex_filter
    attempt,          \* extractor's retry loop: attempt
    cli_stdout,       \* result.stdout of the last xcresulttool run
    cli_outcome,      \* how the last xcresulttool run ended
    root_id_missing,  \* runs so far whose stderr held "root ID is missing"
    ext,              \* (success, console_output) the extractor returned
    sleeps,           \* time.sleep calls made by the entry point
    scans,            \* scans of DerivedData made
    cli_calls,        \* xcresulttool invocations made
    script_calls,     \* action scripts handed to osascript
    result,           \* what the entry point returned or raised
    BUILD_WARNINGS_ENABLED,  \* xcresult.py's global of that name
    BUILD_WARNINGS_FORCED,   \* xcresult.py's global of that name
    build_log,        \* the build log handed to the classifier, as lines
    include_warnings, \* the caller's include_warnings
    report,           \* the classifier's formatted report
    ALLOWED_FOLDERS,  \* the global of that name: the allowed roots
    path_arg          \* the caller's project_path and what the file system
                      \* answers for it

argVars == <<tool, wait_seconds, max_lines, regex_filter>>

scriptVars == <<start_timestamp, invoked_at, script, poll_i, output, completed,
               final_status>>

locVars == <<end_time, xcresult_path, mod_time, create_time>>

extVars == <<ext_max_lines, ext_regex_filter, attempt, cli_stdout, cli_outcome,
            root_id_missing, ext>>

countVars == <<sleeps, scans, cli_calls, script_calls>>

vars == <<tool, pc, now, fs, ide, wait_seconds, max_lines, regex_filter,
          start_timestamp, invoked_at, script, poll_i, output, completed,
          final_status,
          end_time, xcresult_path, mod_time, create_time, located,
          ext_max_lines, ext_regex_filter, attempt, cli_stdout, cli_outcome,
          root_id_missing, ext,
          sleeps, scans, cli_calls, script_calls, result,
          BUILD_WARNINGS_ENABLED, BUILD_WARNINGS_FORCED, build_log,
          include_warnings, report, ALLOWED_FOLDERS, path_arg>>

cfgVars == <<BUILD_WARNINGS_ENABLED, BUILD_WARNINGS_FORCED, ALLOWED_FOLDERS,
            path_arg>>

buildVars == <<build_log, include_warnings, report>>

\* ---------------------------------------------------------- path validation

TxtXcodeproj == <<".", "x", "c", "o", "d", "e", "p", "r", "o", "j">>

TxtXcworkspace == <<".", "x", "c", "w", "o", "r", "k", "s", "p", "a", "c", "e">>

\* A project_path argument: its text, and what os.path.exists and
\* os.path.realpath answer for it.
PathArg(text, exists, realpath) ==
    [text |-> text, exists |-> exists, realpath |-> realpath]

\* The folders ALLOWED_FOLDERS may hold: get_allowed_folders keeps absolute
\* directories with the trailing slash removed.
RootA == <<"/", "a">>

RootB == <<"/", "b">>

\* The project every other section works on, inside RootA.
InsideProject == RootA \o <<"/", "P">> \o TxtXcodeproj

\* A project outside both roots.
OutsideProject == <<"/", "c", "/", "Q">> \o TxtXcodeproj

\* The state of the allowlist and the argument in which validation passes.
AllowedProject ==
    /\ ALLOWED_FOLDERS = {RootA}
    /\ path_arg = PathArg(InsideProject, TRUE, InsideProject)

\* os.path.abspath(project_path).rstrip("/") for the absolute paths of the
\* model, which hold no "." or ".." component and no doubled slash.
RECURSIVE RStripSlash(_)
RStripSlash(s) ==
    IF s # <<>> /\ s[Len(s)] = "/" THEN RStripSlash(SubSeq(s, 1, Len(s) - 1))
    ELSE s

is_path_allowed(text) ==
    IF text = <<>> THEN FALSE
    ELSE IF ALLOWED_FOLDERS = {} THEN FALSE
    ELSE LET normal == RStripSlash(text)
         IN  \E allowed_folder \in ALLOWED_FOLDERS :
                \/ normal = allowed_folder
                \/ StartsWith(normal, allowed_folder \o <<"/">>)

\* The exception validate_and_normalize_project_path raises, or "" and the
\* path it returns.
validate_and_normalize_project_path(arg) ==
    LET stripped == Strip(arg.text)
    IN  IF stripped = <<>>
        THEN [raised |-> "InvalidParameterError", path |-> <<>>]
        ELSE IF ~(EndsWith(stripped, TxtXcodeproj) \/ EndsWith(stripped, TxtXcworkspace))
        THEN [raised |-> "InvalidParameterError", path |-> <<>>]
        ELSE IF ~is_path_allowed(stripped)
        THEN [raised |-> "AccessDeniedError", path |-> <<>>]
        ELSE IF ~arg.exists
        THEN [raised |-> "InvalidParameterError", path |-> <<>>]
        ELSE [raised |-> "", path |-> arg.realpath]

\* The arguments of the model: projects inside and outside the roots, a
\* directory whose name begins like a root's, links in both directions, a
\* missing project, a trailing slash, and texts that are no project path.
ProjectPaths ==
    {PathArg(InsideProject, TRUE, InsideProject),
     PathArg(InsideProject \o <<"/">>, TRUE, InsideProject),
     PathArg(OutsideProject, TRUE, OutsideProject),
     PathArg(<<"/", "a", "b", "/", "P">> \o TxtXcodeproj, TRUE,
             <<"/", "a", "b", "/", "P">> \o TxtXcodeproj),
     PathArg(RootA \o <<"/", "L">> \o TxtXcodeproj, TRUE, InsideProject),
     PathArg(RootA \o <<"/", "L">> \o TxtXcodeproj, TRUE, OutsideProject),
     PathArg(<<"/", "c", "/", "L">> \o TxtXcodeproj, TRUE, InsideProject),
     PathArg(RootB \o <<"/", "W">> \o TxtXcworkspace, TRUE,
             RootB \o <<"/", "W">> \o TxtXcworkspace),
     PathArg(RootA \o <<"/", "N">> \o TxtXcodeproj, FALSE,
             RootA \o <<"/", "N">> \o TxtXcodeproj),
     PathArg(RootA \o <<"/", "P", ".", "t", "x", "t">>, TRUE,
             RootA \o <<"/", "P", ".", "t", "x", "t">>),
     PathArg(<<" ">>, FALSE, <<>>),
     PathArg(<<>>, FALSE, <<>>)}

AllowLists == SUBSET {RootA, RootB}

\* The values of the locals no statement has assigned yet.
FreshScript ==
    /\ invoked_at = -1
    /\ script = ""
    /\ poll_i = 0
    /\ output = <<>>
    /\ completed = FALSE
    /\ final_status = <<>>

FreshLocator ==
    /\ end_time = 0
    /\ xcresult_path = None
    /\ mod_time = -1
    /\ create_time = -1
    /\ located = None

FreshExtractor ==
    /\ ext_max_lines = PyNone
    /\ ext_regex_filter = PyNone
    /\ attempt = 0
    /\ cli_stdout = NoStdout
    /\ cli_outcome = ""
    /\ root_id_missing = 0
    /\ ext = NoExt

\* The globals as the module sets them when it is imported.
DefaultConfig ==
    /\ BUILD_WARNINGS_ENABLED = TRUE
    /\ BUILD_WARNINGS_FORCED = PyNone

FreshBuild ==
    /\ build_log = <<>>
    /\ include_warnings = PyNone
    /\ report = NoReport

FreshCounts ==
    /\ sleeps = 0
    /\ scans = 0
    /\ cli_calls = 0
    /\ script_calls = 0

\* ----------------------------------------------------- the artifact locator

\* f.endswith('.xcresult')
IsXcresult(f) ==
    EndsWith(FileName(f), <<".", "x", "c", "r", "e", "s", "u", "l", "t">>)

\* xcresult_files of one logs_dir: the (mtime, full_path) pairs collected.
XcresultFiles(d, kind, f) ==
    {b \in Files : /\ FileDir(b) = d
                   /\ FileKind(b) = kind
                   /\ f[b].exists
                   /\ IsXcresult(b)}

\* xcresult_files.sort(reverse=True)[0]: greatest (mtime, path) pair.
MostRecentIn(S, f) ==
    CHOOSE a \in S : \A b \in S :
        \/ f[a].mtime > f[b].mtime
        \/ f[a].mtime = f[b].mtime /\ FileRank(a) >= FileRank(b)

\* derived_dir.startswith(project_name + "-")
DirMatches(d, project_name) == StartsWith(DirName(d), project_name \o <<"-">>)

\* The loop over os.listdir(derived_data_base): the first matching directory
\* that holds a bundle decides.
RECURSIVE ScanDirs(_, _, _, _, _)
ScanDirs(listing, i, project_name, kind, f) ==
    IF i > Len(listing) THEN None
    ELSE IF /\ DirMatches(listing[i], project_name)
            /\ XcresultFiles(listing[i], kind, f) # {}
         THEN MostRecentIn(XcresultFiles(listing[i], kind, f), f)
         ELSE ScanDirs(listing, i + 1, project_name, kind, f)

find_xcresult_for_project(project_path, listing, f) ==
    ScanDirs(listing, 1, ProjectName(project_path), "Launch", f)

find_xcresult_bundle(project_path, listing, f) ==
    ScanDirs(listing, 1, ProjectName(project_path), "Test", f)

\* create_time >= start_timestamp and mod_time >= start_timestamp
AcceptOnlyModTime(c, m, start) == m >= start

AcceptXcresult(c, m, start) == c >= start /\ m >= start

\* Where the locator hands control back.
AfterLocator == IF tool = "wait_for_xcresult_after_timestamp" THEN "done" ELSE "located"

\* What the standalone call returns: a path or None.
PathResult(p) == [kind |-> "path", status |-> <<>>, lines |-> <<p>>, n |-> 0]

\* while time.time() < end_time ... return None
WaitTest ==
    /\ pc = "wait_test"
    /\ IF now < end_time
       THEN pc' = "wait_scan" /\ UNCHANGED <<located, result>>
       ELSE /\ pc' = AfterLocator
            /\ located' = None
            /\ result' = IF tool = "wait_for_xcresult_after_timestamp"
                         THEN PathResult(None) ELSE result
    /\ UNCHANGED <<cfgVars, buildVars, argVars, now, fs, ide, scriptVars, locVars, extVars, countVars>>

\* xcresult_path = find_xcresult_for_project(project_path)
WaitScan ==
    /\ pc = "wait_scan"
    /\ \E listing \in Listings :
          xcresult_path' = find_xcresult_for_project(TheProject, listing, fs)
    /\ pc' = IF xcresult_path' # None THEN "wait_stat" ELSE "wait_sleep"
    /\ scans' = scans + 1
    /\ UNCHANGED <<cfgVars, buildVars, argVars, now, fs, ide, scriptVars, end_time, mod_time,
                   create_time, located, extVars, sleeps, cli_calls,
                   script_calls, result>>

\* mod_time, create_time = getmtime, getctime; accept or go on waiting
WaitStat ==
    /\ pc = "wait_stat"
    /\ mod_time' = fs[xcresult_path].mtime
    /\ create_time' = fs[xcresult_path].ctime
    /\ IF AcceptXcresult(create_time', mod_time', start_timestamp)
       THEN /\ pc' = AfterLocator
            /\ located' = xcresult_path
            /\ result' = IF tool = "wait_for_xcresult_after_timestamp"
                         THEN PathResult(xcresult_path) ELSE result
       ELSE pc' = "wait_sleep" /\ UNCHANGED <<located, result>>
    /\ UNCHANGED <<cfgVars, buildVars, argVars, now, fs, ide, scriptVars, end_time, xcresult_path,
                   extVars, countVars>>

\* time.sleep(1)
WaitSleep ==
    /\ pc = "wait_sleep"
    /\ now' = now + 1
    /\ sleeps' = sleeps + 1
    /\ pc' = "wait_test"
    /\ UNCHANGED <<cfgVars, buildVars, argVars, fs, ide, scriptVars, locVars, located, extVars,
                   scans, cli_calls, script_calls, result>>

\* --------------------------------------- the locator, called on its own

FileTimes == 0..MaxFileTime

FileStates == {NoFile} \cup {FileAt(c, m) : c \in FileTimes, m \in FileTimes}

\* The two files no run of the project writes: a bundle of another project
\* whose directory shares the name's first letters, and a manifest.
DecoyFile == FileAt(MaxFileTime, MaxFileTime)

\* The tree in which the bundles of S are as part says, and no other bundle
\* of the project exists.
TreeWith(S, part) ==
    [f \in Files |-> IF f \in S THEN part[f]
                     ELSE IF f \in OtherFiles THEN DecoyFile ELSE NoFile]

InitLocate ==
    /\ tool \in {"wait_for_xcresult_after_timestamp",
                 "find_xcresult_for_project", "find_xcresult_bundle"}
    /\ IF tool = "find_xcresult_bundle"
       THEN \E part \in [TestBundles -> FileStates] : fs = TreeWith(TestBundles, part)
       ELSE \E part \in [LaunchBundles -> FileStates] : fs = TreeWith(LaunchBundles, part)
    /\ start_timestamp = CallTime
    /\ IF tool = "wait_for_xcresult_after_timestamp"
       THEN wait_seconds \in 0..MaxWait
       ELSE wait_seconds = 0
    /\ now = start_timestamp
    /\ end_time = IF tool = "wait_for_xcresult_after_timestamp"
                  THEN now + wait_seconds ELSE 0
    /\ pc = IF tool = "wait_for_xcresult_after_timestamp" THEN "wait_test" ELSE "call"
    /\ xcresult_path = None
    /\ mod_time = -1
    /\ create_time = -1
    /\ located = None
    /\ ide = NoIde
    /\ max_lines = PyNone
    /\ regex_filter = PyNone
    /\ FreshScript
    /\ FreshExtractor
    /\ FreshCounts
    /\ DefaultConfig
    /\ FreshBuild
    /\ result = NoResult
    /\ AllowedProject

\* Another process rewrites a Launch bundle while the locator polls.
FsWrite ==
    /\ tool = "wait_for_xcresult_after_timestamp"
    /\ pc \in {"wait_scan", "wait_stat"}
    /\ \E b \in LaunchBundles, s \in FileStates \ {NoFile} :
          /\ fs[b] # s
          /\ fs' = [fs EXCEPT ![b] = s]
    /\ UNCHANGED <<cfgVars, buildVars, argVars, pc, now, ide, scriptVars, locVars, located,
                   extVars, countVars, result>>

\* One call of find_xcresult_for_project.
FindLaunchCall ==
    /\ tool = "find_xcresult_for_project"
    /\ pc = "call"
    /\ \E listing \in Listings :
          result' = PathResult(find_xcresult_for_project(TheProject, listing, fs))
    /\ pc' = "done"
    /\ scans' = scans + 1
    /\ UNCHANGED <<cfgVars, buildVars, argVars, now, fs, ide, scriptVars, locVars, located,
                   extVars, sleeps, cli_calls, script_calls>>

\* One call of find_xcresult_bundle.
FindTestCall ==
    /\ tool = "find_xcresult_bundle"
    /\ pc = "call"
    /\ \E listing \in Listings :
          result' = PathResult(find_xcresult_bundle(TheProject, listing, fs))
    /\ pc' = "done"
    /\ scans' = scans + 1
    /\ UNCHANGED <<cfgVars, buildVars, argVars, now, fs, ide, scriptVars, locVars, located,
                   extVars, sleeps, cli_calls, script_calls>>

NextLocate ==
    \/ WaitTest
    \/ WaitScan
    \/ WaitStat
    \/ WaitSleep
    \/ FsWrite
    \/ FindLaunchCall
    \/ FindTestCall

SpecLocate == InitLocate /\ [][NextLocate]_vars

\* wait_for_xcresult_after_timestamp while no other process writes.
InitLocateQuiet == InitLocate /\ tool = "wait_for_xcresult_after_timestamp"

NextLocateQuiet ==
    \/ WaitTest
    \/ WaitScan
    \/ WaitStat
    \/ WaitSleep

SpecLocateQuiet == InitLocateQuiet /\ [][NextLocateQuiet]_vars

\* ---------------------------------------------------- the console extractor

\* max_retries, retry_delay
MaxRetries == 7

RetryDelay == 1

\* The content fields a console item may carry.  Each is one line of text.
Contents == {<<" ">>, <<"a">>, <<"b">>, <<" ", "a", "b", " ">>}

ItemSeqs == UNION {[1..n -> Contents] : n \in 0..MaxItems}

Stdouts == {NoStdout} \cup {[json |-> TRUE, items |-> it] : it \in ItemSeqs}

\* The console logs a bundle written during a launch of the model holds.
RunStdouts ==
    {NoStdout} \cup
    {[json |-> TRUE, items |-> it] : it \in {<<>>, <<<<"a">>>>, <<<<"a">>, <<"b">>>>}}

\* What one run of xcresulttool may come to.
CliOutcomes ==
    {[kind |-> k, stdout |-> NoStdout] :
        k \in {"root_id_missing", "other_failure", "timeout", "exception"}}
    \cup {[kind |-> "exit0", stdout |-> o] :
            o \in IF tool = "run_project" THEN RunStdouts ELSE Stdouts}

\* The patterns of the model: over its alphabet "(" alone is special, and a
\* pattern holding it has an unterminated group, which re rejects.
ReError(pattern) == \E i \in 1..Len(pattern) : pattern[i] = "("

\* re.search(pattern, content) for a pattern re accepts: all its characters
\* are literals.
ReSearch(pattern, content) == Contains(content, pattern)

\* item.get('content', '').strip() of every item, the empty ones dropped.
RECURSIVE NonEmptyContents(_)
NonEmptyContents(items) ==
    IF items = <<>> THEN <<>>
    ELSE LET content == Strip(Head(items))
         IN  (IF content # <<>> THEN <<content>> ELSE <<>>)
                \o NonEmptyContents(Tail(items))

RECURSIVE Matching(_, _)
Matching(contents, pattern) ==
    IF contents = <<>> THEN <<>>
    ELSE (IF ReSearch(pattern, Head(contents)) THEN <<Head(contents)>> ELSE <<>>)
            \o Matching(Tail(contents), pattern)

\* The loop over log_data['items']: console_lines, or the exception that
\* ended it.  Nothing is raised before the first non-empty content.
ConsoleLines(items, rf) ==
    LET contents == NonEmptyContents(items)
    IN  IF contents = <<>> THEN [raised |-> "", lines |-> <<>>]
        ELSE IF ~Truthy(rf) THEN [raised |-> "", lines |-> contents]
        ELSE IF rf.t # "str" THEN [raised |-> "AttributeError", lines |-> <<>>]
        ELSE IF Strip(rf.s) = <<>> THEN [raised |-> "", lines |-> contents]
        ELSE IF ReError(rf.s) THEN [raised |-> "InvalidParameterError", lines |-> <<>>]
        ELSE [raised |-> "", lines |-> Matching(contents, rf.s)]

\* console_lines[:max_lines]
TakeFirst(lines, n) ==
    IF n >= 0 THEN SubSeq(lines, 1, Min2(n, Len(lines)))
    ELSE SubSeq(lines, 1, Max2(Len(lines) + n, 0))

\* console_lines[-max_lines:]
TakeLast(lines, n) ==
    IF n > 0 THEN SubSeq(lines, Max2(Len(lines) - n, 0) + 1, Len(lines))
    ELSE SubSeq(lines, Min2(0 - n, Len(lines)) + 1, Len(lines))

\* The classes `except Exception` catches: XCodeMCPError and its subclasses
\* derive from Exception, like the built-in errors.
CaughtByExceptException(raised) ==
    raised \in {"InvalidParameterError", "XCodeMCPError", "AttributeError", "TypeError"}

ExtOk(lines) == [ok |-> TRUE, msg |-> "", cause |-> "", lines |-> lines]

ExtFail(msg, cause) == [ok |-> FALSE, msg |-> msg, cause |-> cause, lines |-> <<>>]

ExtRaise(raised) == [ok |-> FALSE, msg |-> "raise", cause |-> raised, lines |-> <<>>]

\* What the handlers of the parsing try block make of an exception.
Handled(raised) ==
    IF CaughtByExceptException(raised)
    THEN ExtFail("Error processing console logs", raised)
    ELSE ExtRaise(raised)

\* The cap of utils/xcresult.py keeps the head, the one of __main__.py the tail.
Capped(variant, lines, n) ==
    IF Len(lines) > n
    THEN (IF variant = "main" THEN TakeLast(lines, n) ELSE TakeFirst(lines, n))
    ELSE lines

\* The part of extract_console_logs_from_xcresult after the retry loop.
ParseConsole(variant, stdout, ml, rf) ==
    IF ~stdout.json THEN ExtFail("Failed to parse console logs", "JSONDecodeError")
    ELSE LET got == ConsoleLines(stdout.items, rf)
         IN  IF got.raised # "" THEN Handled(got.raised)
             ELSE IF ml.t # "int" THEN Handled("TypeError")
             ELSE ExtOk(SplitLines(JoinLines(Capped(variant, got.lines, ml.n))))

\* Which copy of the extractor the running tool imports.
Variant == IF tool = "main_get_runtime_output" THEN "main" ELSE "utils"

\* attempt < max_retries - 1: another pass of the loop is left.
OneMoreAttempt(n) == n < MaxRetries

MoreAttempts(n) == n < MaxRetries - 1

\* The outcomes after which the loop goes on while passes are left: the
\* "root ID is missing" exit, a timeout, any other exception of the run.
AnyFailureRetried(kind) == TRUE

MayRetry(kind) == kind # "other_failure"

\* One pass of the retry loop: the sleep before a retry, the CLI run, and
\* what its outcome leads to.
ExtractAttempt ==
    /\ pc = "cli"
    /\ \E o \in CliOutcomes :
          LET slept == IF attempt > 0 THEN RetryDelay ELSE 0
              more == MoreAttempts(attempt)
          IN  /\ now' = now + slept
              /\ sleeps' = sleeps + (IF attempt > 0 THEN 1 ELSE 0)
              /\ cli_calls' = cli_calls + 1
              /\ cli_stdout' = o.stdout
              /\ cli_outcome' = o.kind
              /\ root_id_missing' = root_id_missing +
                    (IF o.kind = "root_id_missing" THEN 1 ELSE 0)
              /\ IF o.kind = "exit0"
                 THEN /\ ext' = ParseConsole(Variant, o.stdout, ext_max_lines,
                                            ext_regex_filter)
                      /\ pc' = "extracted"
                      /\ UNCHANGED attempt
                 ELSE IF more /\ MayRetry(o.kind)
                 THEN /\ attempt' = attempt + 1
                      /\ pc' = "cli"
                      /\ UNCHANGED ext
                 ELSE /\ ext' = CASE o.kind = "timeout" ->
                                      ExtFail("Timeout extracting console logs", "")
                                  [] o.kind = "exception" ->
                                      ExtFail("Error extracting console logs", "")
                                  [] OTHER ->
                                      ExtFail("Failed to extract console logs", "")
                      /\ pc' = "extracted"
                      /\ UNCHANGED attempt
    /\ UNCHANGED <<cfgVars, buildVars, argVars, fs, ide, scriptVars, locVars, located,
                   ext_max_lines, ext_regex_filter, scans, script_calls, result>>

\* ------------------------------------------------------- get_runtime_output

Raise(exc) == [kind |-> exc, status |-> <<>>, lines |-> <<>>, n |-> 0]

Message(kind) == [kind |-> kind, status |-> <<>>, lines |-> <<>>, n |-> 0]

\* header + console_output: the count the header names and the lines below it.
ConsoleReport(lines) ==
    [kind |-> "Console output from most recent run", status |-> <<>>,
     lines |-> lines, n |-> Len(lines)]

OutputTools == {"get_runtime_output", "main_get_runtime_output"}

\* Parameter check, scan, and the call of the extractor.
OutputCall ==
    /\ tool \in OutputTools
    /\ pc = "call"
    /\ IF max_lines.n < 1
       THEN /\ result' = Raise("InvalidParameterError")
            /\ pc' = "done"
            /\ UNCHANGED <<located, ext_max_lines, ext_regex_filter, scans>>
       ELSE \E listing \in Listings :
               /\ located' = find_xcresult_for_project(TheProject, listing, fs)
               /\ scans' = scans + 1
               /\ IF located' = None
                  THEN /\ result' = Message("No xcresult file found")
                       /\ pc' = "done"
                       /\ UNCHANGED <<ext_max_lines, ext_regex_filter>>
                  ELSE /\ ext_max_lines' = max_lines
                       /\ ext_regex_filter' = regex_filter
                       /\ pc' = "cli"
                       /\ UNCHANGED result
    /\ UNCHANGED <<cfgVars, buildVars, argVars, now, fs, ide, scriptVars, locVars, attempt,
                   cli_stdout, cli_outcome, root_id_missing, ext, sleeps,
                   cli_calls, script_calls>>

\* What the tool makes of (success, console_output).
OutputReturn ==
    /\ tool \in OutputTools
    /\ pc = "extracted"
    /\ result' =
          IF ext.msg = "raise" THEN Raise(ext.cause)
          ELSE IF ~ext.ok THEN Raise("XCodeMCPError")
          ELSE IF ext.lines = <<>>
          THEN (IF tool = "main_get_runtime_output"
                THEN Message("No console output found in the most recent run")
                ELSE IF Truthy(regex_filter)
                THEN Message("No console output matched filter")
                ELSE Message("No console output in xcresult"))
          ELSE ConsoleReport(ext.lines)
    /\ pc' = "done"
    /\ UNCHANGED <<cfgVars, buildVars, argVars, now, fs, ide, scriptVars, locVars, located,
                   extVars, countVars>>

\* The regex_filter values a caller passes.
RegexArgs ==
    {PyNone, PyStr(<<>>), PyStr(<<" ">>), PyStr(<<"a">>), PyStr(<<"b">>),
     PyStr(<<"(">>)}

\* Trees a retrieval call may find: the project never run, or its bundles
\* as earlier runs left them.
OutputTrees ==
    {TreeWith(LaunchBundles, [a1 |-> a, b1 |-> b, b2 |-> NoFile]) :
        a \in {NoFile, FileAt(0, 0)}, b \in {NoFile, FileAt(0, 1)}}

InitOutput ==
    /\ tool \in OutputTools
    /\ pc = "call"
    /\ now = CallTime
    /\ fs \in OutputTrees
    /\ ide = NoIde
    /\ wait_seconds = 0
    /\ max_lines \in {PyInt(n) : n \in 0..MaxLines}
    /\ regex_filter \in RegexArgs
    /\ start_timestamp = 0
    /\ FreshScript
    /\ FreshLocator
    /\ FreshExtractor
    /\ FreshCounts
    /\ DefaultConfig
    /\ FreshBuild
    /\ result = NoResult
    /\ AllowedProject

NextOutput ==
    \/ OutputCall
    \/ ExtractAttempt
    \/ OutputReturn

SpecOutput == InitOutput /\ [][NextOutput]_vars

\* ------------------------------------- the extractor, called on its own

InitExtract ==
    /\ tool = "extract_console_logs_from_xcresult"
    /\ pc = "cli"
    /\ now = CallTime
    /\ fs = TreeWith({}, <<>>)
    /\ ide = NoIde
    /\ wait_seconds = 0
    /\ max_lines = PyNone
    /\ regex_filter = PyNone
    /\ start_timestamp = 0
    /\ FreshScript
    /\ FreshLocator
    /\ ext_max_lines \in {PyInt(n) : n \in 1..MaxLines}
    /\ ext_regex_filter \in RegexArgs
    /\ attempt = 0
    /\ cli_stdout = NoStdout
    /\ cli_outcome = ""
    /\ root_id_missing = 0
    /\ ext = NoExt
    /\ FreshCounts
    /\ DefaultConfig
    /\ FreshBuild
    /\ result = NoResult
    /\ AllowedProject

NextExtract == ExtractAttempt

SpecExtract == InitExtract /\ [][NextExtract]_vars

\* ------------------------------------------------- the build-log classifier

\* The cap on the lines a report lists.
DisplayCap == 25

\* str.lower(), on the letters the model's lines use.
LowerChar(c) ==
    CASE c = "E" -> "e" [] c = "R" -> "r" [] c = "O" -> "o"
      [] c = "W" -> "w" [] c = "A" -> "a" [] c = "N" -> "n"
      [] c = "I" -> "i" [] c = "G" -> "g" [] c = "F" -> "f"
      [] c = "L" -> "l" [] c = "T" -> "t" [] c = "U" -> "u"
      [] c = "S" -> "s" [] c = "C" -> "c" [] c = "D" -> "d"
      [] OTHER -> c

Lower(s) == [i \in 1..Len(s) |-> LowerChar(s[i])]

TxtError == <<"e", "r", "r", "o", "r">>

TxtWarning == <<"w", "a", "r", "n", "i", "n", "g">>

\* "error" in line_lower
CaseSensitiveError(line) == Contains(line, TxtError)

IsErrorLine(line) ==
    LET line_lower == Lower(line) IN Contains(line_lower, TxtError)

\* "warning" in line_lower
IsWarningLine(line) ==
    LET line_lower == Lower(line) IN Contains(line_lower, TxtWarning)

\* show_warnings: the forced flag, else the parameter, else the default.
ParamBeforeForced(forced, param, enabled) ==
    IF param.t # "none" THEN Truthy(param)
    ELSE IF forced.t # "none" THEN Truthy(forced)
    ELSE enabled

ShowWarnings(forced, param, enabled) ==
    IF forced.t # "none" THEN Truthy(forced)
    ELSE IF param.t # "none" THEN Truthy(param)
    ELSE enabled

\* build_log.split("\n"): a log without a line break is one line.
OutputLines(log) == IF log = <<>> THEN << <<>> >> ELSE log

\* The single pass over output_lines: error_lines.
ErrorLines(lines) == SelectSeq(lines, IsErrorLine)

\* The single pass over output_lines: warning_lines.
BothBuckets(lines, show_warnings) ==
    LET InBucket(line) == show_warnings /\ IsWarningLine(line)
    IN  SelectSeq(lines, InBucket)

WarningLines(lines, show_warnings) ==
    LET InBucket(line) ==
            ~IsErrorLine(line) /\ show_warnings /\ IsWarningLine(line)
    IN  SelectSeq(lines, InBucket)

\* important_lines = error_lines + warning_lines
WarningsFirst(error_lines, warning_lines) == warning_lines \o error_lines

ImportantLines(error_lines, warning_lines) == error_lines \o warning_lines

\* displayed_errors = min(total_errors, 25)
DisplayedErrors(total_errors) == Min2(total_errors, DisplayCap)

\* displayed_warnings = 0 if total_errors >= 25 else min(..., 25 - total_errors)
WarningsUpToCap(total_errors, total_warnings) == Min2(total_warnings, DisplayCap)

DisplayedWarnings(total_errors, total_warnings) ==
    IF total_errors >= DisplayCap THEN 0
    ELSE Min2(total_warnings, DisplayCap - total_errors)

\* The report: its first line, taken apart, and the lines listed under it.
FormatReport(error_lines, warning_lines) ==
    LET total_errors == Len(error_lines)
        total_warnings == Len(warning_lines)
        important_lines == ImportantLines(error_lines, warning_lines)
        displayed_errors == DisplayedErrors(total_errors)
        displayed_warnings == DisplayedWarnings(total_errors, total_warnings)
        listed == IF Len(important_lines) > DisplayCap
                  THEN SubSeq(important_lines, 1, DisplayCap)
                  ELSE important_lines
        base == [headline |-> "", total_errors |-> total_errors,
                 total_warnings |-> total_warnings, note |-> "",
                 note_errors |-> 0, note_warnings |-> 0, listed |-> listed]
    IN  IF error_lines # <<>> /\ warning_lines # <<>>
        THEN IF total_errors + total_warnings > DisplayCap
             THEN IF displayed_warnings = 0
                  THEN [base EXCEPT
                          !.headline = "Build failed with E error(s) and W warning(s).",
                          !.note = "Showing first N errors.",
                          !.note_errors = displayed_errors]
                  ELSE [base EXCEPT
                          !.headline = "Build failed with E error(s) and W warning(s).",
                          !.note = "Showing N error(s) and first M warning(s).",
                          !.note_errors = displayed_errors,
                          !.note_warnings = displayed_warnings]
             ELSE [base EXCEPT
                     !.headline = "Build failed with E error(s) and W warning(s)."]
        ELSE IF error_lines # <<>>
        THEN IF total_errors > DisplayCap
             THEN [base EXCEPT !.headline = "Build failed with E error(s).",
                               !.note = "Showing first N errors.",
                               !.note_errors = DisplayCap]
             ELSE [base EXCEPT !.headline = "Build failed with E error(s)."]
        ELSE IF warning_lines # <<>>
        THEN IF total_warnings > DisplayCap
             THEN [base EXCEPT !.headline = "Build completed with W warning(s).",
                               !.note = "Showing first N warnings.",
                               !.note_warnings = DisplayCap]
             ELSE [base EXCEPT !.headline = "Build completed with W warning(s)."]
        ELSE [base EXCEPT
                !.headline = "Build failed (no specific errors or warnings found in output)",
                !.total_errors = 0, !.total_warnings = 0, !.listed = <<>>]

extract_build_errors_and_warnings(log, param, forced, enabled) ==
    LET show_warnings == ShowWarnings(forced, param, enabled)
        output_lines == OutputLines(log)
    IN  FormatReport(ErrorLines(output_lines),
                     WarningLines(output_lines, show_warnings))

\* One call of the classifier.
ClassifyCall ==
    /\ tool = "extract_build_errors_and_warnings"
    /\ pc = "call"
    /\ report' = extract_build_errors_and_warnings(
                    build_log, include_warnings,
                    BUILD_WARNINGS_FORCED, BUILD_WARNINGS_ENABLED)
    /\ pc' = "done"
    /\ UNCHANGED <<cfgVars, build_log, include_warnings, argVars, now, fs, ide,
                   scriptVars, locVars, located, extVars, countVars, result>>

\* The lines a build log is made of.
LogTexts ==
    {<<"e", "r", "r", "o", "r", ":", "x">>,
     <<"w", "a", "r", "n", "i", "n", "g", " ", "E", "r", "r", "o", "r">>,
     <<"W", "A", "R", "N", "I", "N", "G">>,
     <<"o", "k">>}

\* The lengths of a run of equal lines: none, one, half the cap, the cap
\* and up to MaxOver more.
RunLengths == {0, 1, 12} \cup (DisplayCap..(DisplayCap + MaxOver))

Repeat(text, n) == [i \in 1..n |-> text]

\* The build logs of the model: three runs of equal lines.
BuildLogs ==
    {Repeat(t1, n1) \o Repeat(t2, n2) \o Repeat(t3, n3) :
        t1 \in LogTexts, t2 \in LogTexts, t3 \in LogTexts,
        n1 \in RunLengths, n2 \in RunLengths, n3 \in RunLengths}

\* (BUILD_WARNINGS_ENABLED, BUILD_WARNINGS_FORCED) after start-up: the
\* defaults, or what set_build_warnings_enabled(enabled, forced) leaves.
StartupWarnings ==
    {<<TRUE, PyNone>>, <<FALSE, PyNone>>,
     <<TRUE, PyBool(TRUE)>>, <<FALSE, PyBool(FALSE)>>}

InitBuildLog ==
    /\ tool = "extract_build_errors_and_warnings"
    /\ pc = "call"
    /\ build_log \in BuildLogs
    /\ include_warnings \in {PyNone, PyBool(TRUE), PyBool(FALSE)}
    /\ \E sw \in StartupWarnings :
          /\ BUILD_WARNINGS_ENABLED = sw[1]
          /\ BUILD_WARNINGS_FORCED = sw[2]
    /\ report = NoReport
    /\ now = 0
    /\ fs = TreeWith({}, <<>>)
    /\ ide = NoIde
    /\ wait_seconds = 0
    /\ max_lines = PyNone
    /\ regex_filter = PyNone
    /\ start_timestamp = 0
    /\ FreshScript
    /\ FreshLocator
    /\ FreshExtractor
    /\ FreshCounts
    /\ result = NoResult
    /\ AllowedProject

\* The same call on every short log: the lines in any order.
ShortLogs == UNION {[1..n -> LogTexts] : n \in 0..MaxShortLog}

InitShortLog ==
    /\ tool = "extract_build_errors_and_warnings"
    /\ pc = "call"
    /\ build_log \in ShortLogs
    /\ include_warnings \in {PyNone, PyBool(TRUE), PyBool(FALSE)}
    /\ \E sw \in StartupWarnings :
          /\ BUILD_WARNINGS_ENABLED = sw[1]
          /\ BUILD_WARNINGS_FORCED = sw[2]
    /\ report = NoReport
    /\ now = 0
    /\ fs = TreeWith({}, <<>>)
    /\ ide = NoIde
    /\ wait_seconds = 0
    /\ max_lines = PyNone
    /\ regex_filter = PyNone
    /\ start_timestamp = 0
    /\ FreshScript
    /\ FreshLocator
    /\ FreshExtractor
    /\ FreshCounts
    /\ result = NoResult
    /\ AllowedProject

NextBuildLog == ClassifyCall

SpecShortLog == InitShortLog /\ [][NextBuildLog]_vars

SpecBuildLog == InitBuildLog /\ [][NextBuildLog]_vars

\* ------------------------------------------------------------------ the IDE

\* status of a scheme action result, as text
StRunning == <<"r", "u", "n", "n", "i", "n", "g">>

StSucceeded == <<"s", "u", "c", "c", "e", "e", "d", "e", "d">>

StFailed == <<"f", "a", "i", "l", "e", "d">>

\* The bundle the action a call starts writes; the other bundles of its kind
\* are what earlier runs left.
ActionBundle == IF tool = "run_project" THEN "b2" ELSE "tc"

EarlierBundles ==
    (IF tool = "run_project" THEN LaunchBundles ELSE TestBundles) \ {ActionBundle}

\* While the tool may still look, the IDE and the processes it launched write.
IdeWrites == pc \in {"script_poll", "wait_scan", "tests_sleep"}

\* The action the script started comes to its end.
IdeComplete ==
    /\ pc = "script_poll"
    /\ ide.started /\ ~ide.completed
    /\ \E st \in {StSucceeded, StFailed} :
          ide' = [ide EXCEPT !.completed = TRUE, !.status = st]
    /\ UNCHANGED <<cfgVars, buildVars, argVars, pc, now, fs, scriptVars, locVars,
                   located, extVars, countVars, result>>

\* The IDE creates the bundle of the action, or writes to it again.
BundleWrite ==
    /\ IdeWrites
    /\ ide.started
    /\ fs[ActionBundle] # FileAt(fs[ActionBundle].ctime, now)
    /\ fs' = [fs EXCEPT ![ActionBundle] =
                 IF fs[ActionBundle].exists
                 THEN FileAt(fs[ActionBundle].ctime, now)
                 ELSE FileAt(now, now)]
    /\ UNCHANGED <<cfgVars, buildVars, argVars, pc, now, ide, scriptVars, locVars,
                   located, extVars, countVars, result>>

\* A bundle of an earlier run is written to again.
EarlierBundleWrite ==
    /\ IdeWrites
    /\ \E b \in EarlierBundles :
          /\ fs[b].exists
          /\ fs[b].mtime < now
          /\ fs' = [fs EXCEPT ![b] = FileAt(fs[b].ctime, now)]
    /\ UNCHANGED <<cfgVars, buildVars, argVars, pc, now, ide, scriptVars, locVars,
                   located, extVars, countVars, result>>

\* -------------------------------------------------------------- run_project

TxtTrue == <<"t", "r", "u", "e">>

TxtDone == <<"d", "o", "n", "e">>

TxtFail == <<"F", "A", "I", "L">>

\* (actionResult as text): the name the IDE gives the action result object.
TxtActionResult == <<"r", "e", "s", "u", "l", "t", " ", "1">>

\* "Still running after {wait_seconds} seconds (status: {final_status})..."
StillRunning(n, status) ==
    [kind |-> "Still running after", status |-> status, lines |-> <<>>, n |-> n]

\* "Run completed with status: {final_status}. {rest}"
RunCompleted(status, rest) ==
    [kind |-> "Run completed with status", status |-> status,
     lines |-> <<rest>>, n |-> 0]

\* return console_output
ConsoleOutput(lines) ==
    [kind |-> "console_output", status |-> <<>>, lines |-> lines, n |-> 0]

\* Parameter check, start_time = time.time(), and the script handed over.
RunCall ==
    /\ tool = "run_project"
    /\ pc = "call"
    /\ IF wait_seconds < 0
       THEN /\ result' = Raise("InvalidParameterError")
            /\ pc' = "done"
            /\ UNCHANGED <<start_timestamp, invoked_at, script, script_calls>>
       ELSE IF validate_and_normalize_project_path(path_arg).raised # ""
       THEN /\ result' = Raise(validate_and_normalize_project_path(path_arg).raised)
            /\ pc' = "done"
            /\ UNCHANGED <<start_timestamp, invoked_at, script, script_calls>>
       ELSE /\ start_timestamp' = now
            /\ invoked_at' = now
            /\ script' = "repeat wait_seconds times"
            /\ script_calls' = script_calls + 1
            /\ pc' = "script"
            /\ UNCHANGED result
    /\ UNCHANGED <<cfgVars, buildVars, argVars, now, fs, ide, poll_i, output,
                   completed, final_status, locVars, located, extVars, sleeps,
                   scans, cli_calls>>

\* delay 0.5 and delay 2 of the test script, in whole seconds; the launch
\* script has no fixed delay.
OpenDelay == IF tool = "run_project_tests" THEN 2 ELSE 0

\* The script up to the start of the action: the document is opened and
\* loaded and the action started, or the script ends with an error.
ScriptStart ==
    /\ pc = "script"
    /\ \E started \in BOOLEAN, load_wait \in 0..MaxLoadWait :
          /\ now' = now + OpenDelay + load_wait
          /\ IF started
             THEN /\ ide' = [started |-> TRUE, completed |-> FALSE, status |-> StRunning]
                  /\ pc' = "script_poll"
             ELSE /\ pc' = "script_failed"
                  /\ UNCHANGED ide
    /\ UNCHANGED <<cfgVars, buildVars, argVars, fs, scriptVars, locVars,
                   located, extVars, countVars, result>>

\* repeat {wait_seconds} times ... delay 1 ... return "FAIL|" & ...
RunScriptPoll ==
    /\ tool = "run_project"
    /\ pc = "script_poll"
    /\ IF poll_i < wait_seconds
       THEN IF ide.completed
            THEN /\ output' = Strip(TxtDone \o <<"|">> \o ide.status)
                 /\ pc' = "parse"
                 /\ UNCHANGED <<now, poll_i>>
            ELSE /\ now' = now + 1
                 /\ poll_i' = poll_i + 1
                 /\ UNCHANGED <<output, pc>>
       ELSE /\ output' = Strip(TxtFail \o <<"|">> \o TxtActionResult)
            /\ pc' = "parse"
            /\ UNCHANGED <<now, poll_i>>
    /\ UNCHANGED <<cfgVars, buildVars, argVars, fs, ide, start_timestamp,
                   invoked_at, script, completed, final_status, locVars,
                   located, extVars, countVars, result>>

\* if not success: raise XCodeMCPError(f"Run failed: {output}")
RunScriptFailed ==
    /\ tool = "run_project"
    /\ pc = "script_failed"
    /\ result' = Raise("XCodeMCPError")
    /\ pc' = "done"
    /\ UNCHANGED <<cfgVars, buildVars, argVars, now, fs, ide, scriptVars,
                   locVars, located, extVars, countVars>>

\* parts = output.split("|"), completed, final_status, and the entry into
\* wait_for_xcresult_after_timestamp(path, start_time, wait_seconds + 1).
RunParse ==
    /\ tool = "run_project"
    /\ pc = "parse"
    /\ LET parts == Split(output, "|")
       IN  IF Len(parts) # 2
           THEN /\ result' = Raise("XCodeMCPError")
                /\ pc' = "done"
                /\ UNCHANGED <<completed, final_status, end_time>>
           ELSE /\ completed' = (Lower(Strip(parts[1])) = TxtTrue)
                /\ final_status' = Strip(parts[2])
                /\ end_time' = now + (wait_seconds + 1)
                /\ pc' = "wait_test"
                /\ UNCHANGED result
    /\ UNCHANGED <<cfgVars, buildVars, argVars, now, fs, ide, start_timestamp,
                   invoked_at, script, poll_i, output, xcresult_path, mod_time,
                   create_time, located, extVars, countVars>>

\* The positional arguments of the extractor call, in the order the call
\* site writes them: (xcresult_path, regex_filter, max_lines).
RunExtractorArgs(rf, ml) == [max_lines |-> rf, regex_filter |-> ml]

\* if not xcresult_path: ... else the call of the extractor
RunLocated ==
    /\ tool = "run_project"
    /\ pc = "located"
    /\ IF located = None
       THEN /\ result' = IF completed
                         THEN RunCompleted(final_status, "Could not find xcresult file")
                         ELSE StillRunning(wait_seconds, final_status)
            /\ pc' = "done"
            /\ UNCHANGED <<ext_max_lines, ext_regex_filter>>
       ELSE /\ ext_max_lines' = RunExtractorArgs(regex_filter, max_lines).max_lines
            /\ ext_regex_filter' = RunExtractorArgs(regex_filter, max_lines).regex_filter
            /\ pc' = "cli"
            /\ UNCHANGED result
    /\ UNCHANGED <<cfgVars, buildVars, argVars, now, fs, ide, scriptVars, locVars,
                   located, attempt, cli_stdout, cli_outcome, root_id_missing,
                   ext, countVars>>

\* What run_project makes of (success, console_output).
RunReturn ==
    /\ tool = "run_project"
    /\ pc = "extracted"
    /\ result' =
          IF ext.msg = "raise" THEN Raise(ext.cause)
          ELSE IF ~ext.ok THEN RunCompleted(final_status, ext.msg)
          ELSE IF ext.lines = <<>>
          THEN RunCompleted(final_status, "No console output found")
          ELSE ConsoleOutput(ext.lines)
    /\ pc' = "done"
    /\ UNCHANGED <<cfgVars, buildVars, argVars, now, fs, ide, scriptVars, locVars,
                   located, extVars, countVars>>

\* The arguments the launches of the model pass.
RunRegexArgs == {PyNone, PyStr(<<"a">>)}

RunMaxLines == {PyInt(1), PyInt(MaxLines)}

InitRun ==
    /\ tool = "run_project"
    /\ pc = "call"
    /\ now = CallTime
    /\ fs \in OutputTrees
    /\ ide = NoIde
    /\ wait_seconds \in -1..MaxActionWait
    /\ max_lines \in RunMaxLines
    /\ regex_filter \in RunRegexArgs
    /\ start_timestamp = 0
    /\ FreshScript
    /\ FreshLocator
    /\ FreshExtractor
    /\ FreshCounts
    /\ DefaultConfig
    /\ FreshBuild
    /\ result = NoResult
    /\ AllowedProject

NextRun ==
    \/ RunCall
    \/ ScriptStart
    \/ RunScriptPoll
    \/ RunScriptFailed
    \/ IdeComplete
    \/ BundleWrite
    \/ EarlierBundleWrite
    \/ RunParse
    \/ WaitTest
    \/ WaitScan
    \/ WaitStat
    \/ WaitSleep
    \/ RunLocated
    \/ ExtractAttempt
    \/ RunReturn

SpecRun == InitRun /\ [][NextRun]_vars

\* run_project called with any of the project paths under any allowlist; the
\* launch returns at once and earlier runs' bundles may be in place.
InitAccess ==
    /\ tool = "run_project"
    /\ pc = "call"
    /\ now = CallTime
    /\ \E part \in [LaunchBundles -> {NoFile, FileAt(0, 0)}] :
          fs = TreeWith(LaunchBundles, part)
    /\ ide = NoIde
    /\ wait_seconds = 0
    /\ max_lines = PyInt(1)
    /\ regex_filter = PyNone
    /\ start_timestamp = 0
    /\ FreshScript
    /\ FreshLocator
    /\ FreshExtractor
    /\ FreshCounts
    /\ DefaultConfig
    /\ FreshBuild
    /\ result = NoResult
    /\ ALLOWED_FOLDERS \in AllowLists
    /\ path_arg \in ProjectPaths

SpecAccess == InitAccess /\ [][NextRun]_vars

\* -------------------------------------------------------- run_project_tests

TxtStatusPrefix == <<"S", "t", "a", "t", "u", "s", ":", " ">>

TxtCompletedPrefix == <<"C", "o", "m", "p", "l", "e", "t", "e", "d", ":", " ">>

TxtStarted == <<"T", "e", "s", "t", "s", " ", "s", "t", "a", "r", "t", "e", "d", " ", "s", "u", "c", "c", "e", "s", "s", "f", "u", "l", "l", "y">>

\* "FailureCount: 0", "Failures:", failureMessages, "", "---LOG---"
TxtFailureCount == <<"F", "a", "i", "l", "u", "r", "e", "C", "o", "u", "n", "t", ":", " ", "0">>

TxtFailures == <<"F", "a", "i", "l", "u", "r", "e", "s", ":">>

TxtParseFromLog == <<"P", "A", "R", "S", "E", "_", "F", "R", "O", "M", "_", "L", "O", "G">>

TxtLogMark == <<"-", "-", "-", "L", "O", "G", "-", "-", "-">>

TxtFalse == <<"f", "a", "l", "s", "e">>

\* The build logs a test action of the model leaves.
TestBuildLogs == {<<>>, <<"o", "k">>, TxtStatusPrefix \o <<"x">>}

\* if max_wait_seconds > 0: the polling wait_section, else the bare return
TestsWaitSection(max_wait_seconds) ==
    IF max_wait_seconds > 0 THEN "repeat while waitTime < max_wait_seconds"
    ELSE "return Tests started successfully"

\* The text the polling wait_section returns; the failures collection of the
\* model is empty.
TestsScriptOutput(status, is_completed, log) ==
    TxtStatusPrefix \o status \o <<"\n">>
    \o TxtCompletedPrefix \o (IF is_completed THEN TxtTrue ELSE TxtFalse) \o <<"\n">>
    \o TxtFailureCount \o <<"\n">>
    \o TxtFailures \o <<"\n">>
    \o (IF Contains(status, <<"f", "a", "i", "l">>)
        THEN TxtParseFromLog \o <<"\n">> ELSE <<>>)
    \o <<"\n">>
    \o TxtLogMark \o <<"\n">> \o log

\* line.replace(old, "")
RECURSIVE Remove(_, _)
Remove(line, old) ==
    IF line = <<>> THEN <<>>
    ELSE IF StartsWith(line, old)
    THEN Remove(SubSeq(line, Len(old) + 1, Len(line)), old)
    ELSE <<Head(line)>> \o Remove(Tail(line), old)

\* The loop over output.split('\n') that sets status and completed.
RECURSIVE ParseTestLines(_, _, _)
ParseTestLines(lines, status, is_completed) ==
    IF lines = <<>> THEN [status |-> status, completed |-> is_completed]
    ELSE LET line == Head(lines)
         IN  IF StartsWith(line, TxtStatusPrefix)
             THEN ParseTestLines(Tail(lines), Strip(Remove(line, TxtStatusPrefix)),
                                 is_completed)
             ELSE IF StartsWith(line, TxtCompletedPrefix)
             THEN ParseTestLines(Tail(lines), status,
                     Lower(Strip(Remove(line, TxtCompletedPrefix))) = TxtTrue)
             ELSE ParseTestLines(Tail(lines), status, is_completed)

\* if max_wait_seconds == 0: return the confirmation
NeverAtOnce(max_wait_seconds) == FALSE

ReturnsAtOnce(max_wait_seconds) == max_wait_seconds = 0

\* "Tests did not complete within {max_wait_seconds} seconds" and the status
TestsDidNotComplete(n, status) ==
    [kind |-> "Tests did not complete within", status |-> status,
     lines |-> <<>>, n |-> n]

\* return result.stdout: the test results read from the bundle at path
TestResultsOf(path) ==
    [kind |-> "test results", status |-> <<>>, lines |-> <<path>>, n |-> 0]

\* The summary returned when no bundle could be read.
TestsFallback(status) ==
    IF status = StSucceeded THEN Message("All tests passed")
    ELSE IF status = StFailed THEN Message("Tests failed")
    ELSE [kind |-> "Test run status", status |-> status, lines |-> <<>>, n |-> 0]

\* Parameter check and the script built and handed over.
TestsCall ==
    /\ tool = "run_project_tests"
    /\ pc = "call"
    /\ IF wait_seconds < 0
       THEN /\ result' = Raise("InvalidParameterError")
            /\ pc' = "done"
            /\ UNCHANGED <<invoked_at, script, script_calls>>
       ELSE /\ invoked_at' = now
            /\ script' = TestsWaitSection(wait_seconds)
            /\ script_calls' = script_calls + 1
            /\ pc' = "script"
            /\ UNCHANGED result
    /\ UNCHANGED <<cfgVars, buildVars, argVars, now, fs, ide, start_timestamp,
                   poll_i, output, completed, final_status, locVars, located,
                   extVars, sleeps, scans, cli_calls>>

\* The wait_section of the script: one pass of its loop, or its return.
TestsScriptWait ==
    /\ tool = "run_project_tests"
    /\ pc = "script_poll"
    /\ IF script = "return Tests started successfully"
       THEN /\ output' = Strip(TxtStarted)
            /\ pc' = "script_done"
            /\ UNCHANGED <<now, poll_i>>
       ELSE IF poll_i < wait_seconds /\ ~ide.completed
       THEN /\ now' = now + 1
            /\ poll_i' = poll_i + 1
            /\ UNCHANGED <<output, pc>>
       ELSE /\ \E log \in TestBuildLogs :
                  output' = Strip(TestsScriptOutput(ide.status, ide.completed, log))
            /\ pc' = "script_done"
            /\ UNCHANGED <<now, poll_i>>
    /\ UNCHANGED <<cfgVars, buildVars, argVars, fs, ide, start_timestamp,
                   invoked_at, script, completed, final_status, locVars,
                   located, extVars, countVars, result>>

\* if not success: return f"Failed to run tests: {output}"
TestsScriptFailed ==
    /\ tool = "run_project_tests"
    /\ pc = "script_failed"
    /\ result' = Message("Failed to run tests")
    /\ pc' = "done"
    /\ UNCHANGED <<cfgVars, buildVars, argVars, now, fs, ide, scriptVars,
                   locVars, located, extVars, countVars>>

\* The early return, the parse of the script's output, and the return for
\* tests that did not complete.
TestsParse ==
    /\ tool = "run_project_tests"
    /\ pc = "script_done"
    /\ IF ReturnsAtOnce(wait_seconds)
       THEN /\ result' = Message("Tests have been started")
            /\ pc' = "done"
            /\ UNCHANGED <<completed, final_status>>
       ELSE LET parsed == ParseTestLines(Split(output, "\n"), <<>>, FALSE)
            IN  /\ completed' = parsed.completed
                /\ final_status' = parsed.status
                /\ IF ~parsed.completed
                   THEN /\ result' = TestsDidNotComplete(wait_seconds, parsed.status)
                        /\ pc' = "done"
                   ELSE /\ pc' = "tests_sleep"
                        /\ UNCHANGED result
    /\ UNCHANGED <<cfgVars, buildVars, argVars, now, fs, ide, start_timestamp,
                   invoked_at, script, poll_i, output, locVars, located,
                   extVars, countVars>>

\* time.sleep(2); xcresult_path = find_xcresult_bundle(project_path)
TestsFind ==
    /\ tool = "run_project_tests"
    /\ pc = "tests_sleep"
    /\ now' = now + 2
    /\ sleeps' = sleeps + 1
    /\ scans' = scans + 1
    /\ \E listing \in Listings :
          located' = find_xcresult_bundle(TheProject, listing, fs)
    /\ IF located' = None
       THEN result' = TestsFallback(final_status) /\ pc' = "done"
       ELSE pc' = "tests_cli" /\ UNCHANGED result
    /\ UNCHANGED <<cfgVars, buildVars, argVars, fs, ide, scriptVars, locVars,
                   extVars, cli_calls, script_calls>>

\* xcresulttool get test-results tests: its stdout, or the summary
TestsCli ==
    /\ tool = "run_project_tests"
    /\ pc = "tests_cli"
    /\ cli_calls' = cli_calls + 1
    /\ \E outcome \in {"exit0", "other_failure", "exception"} :
          result' = IF outcome = "exit0" THEN TestResultsOf(located)
                    ELSE TestsFallback(final_status)
    /\ pc' = "done"
    /\ UNCHANGED <<cfgVars, buildVars, argVars, now, fs, ide, scriptVars, locVars,
                   located, extVars, sleeps, scans, script_calls>>

\* Trees a test call may find: Test bundles as earlier test runs left them.
TestTrees ==
    {TreeWith(TestBundles, [ta |-> a, tb |-> b, tc |-> NoFile]) :
        a \in {NoFile, FileAt(0, 0)}, b \in {NoFile, FileAt(0, 1)}}

InitTests ==
    /\ tool = "run_project_tests"
    /\ pc = "call"
    /\ now = CallTime
    /\ fs \in TestTrees
    /\ ide = NoIde
    /\ wait_seconds \in -1..MaxActionWait
    /\ max_lines = PyNone
    /\ regex_filter = PyNone
    /\ start_timestamp = 0
    /\ FreshScript
    /\ FreshLocator
    /\ FreshExtractor
    /\ FreshCounts
    /\ DefaultConfig
    /\ FreshBuild
    /\ result = NoResult
    /\ AllowedProject

NextTests ==
    \/ TestsCall
    \/ ScriptStart
    \/ TestsScriptWait
    \/ TestsScriptFailed
    \/ IdeComplete
    \/ BundleWrite
    \/ EarlierBundleWrite
    \/ TestsParse
    \/ TestsFind
    \/ TestsCli

SpecTests == InitTests /\ [][NextTests]_vars

\* ----------------------------------------------- the test-failure extractor

\* The lines a test log of the model is made of.  Each is a line of text
\* together with what every substring test and regular expression of
\* extract_test_failures_from_log yields on it (the groups of a match, or the
\* empty tuple); the failure glyph is written (x).
TestLogLines ==
   {[text |-> "Test Case '-[C m]' started.",
     tc |-> TRUE, failed |-> FALSE, failed_lower |-> FALSE, xct |-> FALSE, glyph |-> FALSE,
     errtag |-> FALSE, bracket |-> TRUE, ts |-> FALSE, executed |-> FALSE, failure |-> FALSE,
     name |-> <<"C", "m">>, p1 |-> <<>>, loc |-> <<>>,
     p2 |-> <<>>,
     p3 |-> <<>>, p3alt |-> <<>>, p4 |-> <<>>,
     p5 |-> FALSE, exec |-> <<>>],
    [text |-> "Test Case '-[C m]' failed (0.1 seconds).",
     tc |-> TRUE, failed |-> TRUE, failed_lower |-> TRUE, xct |-> FALSE, glyph |-> FALSE,
     errtag |-> FALSE, bracket |-> TRUE, ts |-> FALSE, executed |-> FALSE, failure |-> FALSE,
     name |-> <<"C", "m">>, p1 |-> <<"C", "m">>, loc |-> <<>>,
     p2 |-> <<>>,
     p3 |-> <<>>, p3alt |-> <<>>, p4 |-> <<>>,
     p5 |-> FALSE, exec |-> <<>>],
    [text |-> "F.swift:4: error: -[C m] : XCTAssertTrue failed",
     tc |-> FALSE, failed |-> TRUE, failed_lower |-> TRUE, xct |-> TRUE, glyph |-> FALSE,
     errtag |-> TRUE, bracket |-> TRUE, ts |-> FALSE, executed |-> FALSE, failure |-> FALSE,
     name |-> <<"C", "m">>, p1 |-> <<>>, loc |-> <<"F.swift", "4">>,
     p2 |-> <<"F.swift", "4", "C", "m", "XCTAssertTrue failed">>,
     p3 |-> <<>>, p3alt |-> <<>>, p4 |-> <<>>,
     p5 |-> TRUE, exec |-> <<>>],
    [text |-> "F.swift:4: error: -[C m] : XCTAssertFalse failed",
     tc |-> FALSE, failed |-> TRUE, failed_lower |-> TRUE, xct |-> TRUE, glyph |-> FALSE,
     errtag |-> TRUE, bracket |-> TRUE, ts |-> FALSE, executed |-> FALSE, failure |-> FALSE,
     name |-> <<"C", "m">>, p1 |-> <<>>, loc |-> <<"F.swift", "4">>,
     p2 |-> <<"F.swift", "4", "C", "m", "XCTAssertFalse failed">>,
     p3 |-> <<>>, p3alt |-> <<>>, p4 |-> <<>>,
     p5 |-> TRUE, exec |-> <<>>],
    [text |-> "(x) F.swift:4: XCTAssertTrue failed",
     tc |-> FALSE, failed |-> TRUE, failed_lower |-> TRUE, xct |-> TRUE, glyph |-> TRUE,
     errtag |-> FALSE, bracket |-> FALSE, ts |-> FALSE, executed |-> FALSE, failure |-> FALSE,
     name |-> <<>>, p1 |-> <<>>, loc |-> <<"F.swift", "4">>,
     p2 |-> <<>>,
     p3 |-> <<"F.swift", "4", "XCTAssertTrue failed">>, p3alt |-> <<"F.swift:4: XCTAssertTrue failed">>, p4 |-> <<>>,
     p5 |-> TRUE, exec |-> <<>>],
    [text |-> "(x) oops",
     tc |-> FALSE, failed |-> FALSE, failed_lower |-> FALSE, xct |-> FALSE, glyph |-> TRUE,
     errtag |-> FALSE, bracket |-> FALSE, ts |-> FALSE, executed |-> FALSE, failure |-> FALSE,
     name |-> <<>>, p1 |-> <<>>, loc |-> <<>>,
     p2 |-> <<>>,
     p3 |-> <<>>, p3alt |-> <<"oops">>, p4 |-> <<>>,
     p5 |-> FALSE, exec |-> <<>>],
    [text |-> "Test Suite 'C' failed at 12:00.",
     tc |-> FALSE, failed |-> TRUE, failed_lower |-> TRUE, xct |-> FALSE, glyph |-> FALSE,
     errtag |-> FALSE, bracket |-> FALSE, ts |-> TRUE, executed |-> FALSE, failure |-> FALSE,
     name |-> <<>>, p1 |-> <<>>, loc |-> <<>>,
     p2 |-> <<>>,
     p3 |-> <<>>, p3alt |-> <<>>, p4 |-> <<"C">>,
     p5 |-> FALSE, exec |-> <<>>],
    [text |-> "XCTAssertTrue failed - d",
     tc |-> FALSE, failed |-> TRUE, failed_lower |-> TRUE, xct |-> TRUE, glyph |-> FALSE,
     errtag |-> FALSE, bracket |-> FALSE, ts |-> FALSE, executed |-> FALSE, failure |-> FALSE,
     name |-> <<>>, p1 |-> <<>>, loc |-> <<>>,
     p2 |-> <<>>,
     p3 |-> <<>>, p3alt |-> <<>>, p4 |-> <<>>,
     p5 |-> TRUE, exec |-> <<>>],
    [text |-> "F.swift:4: XCTAssertTrue failed - d",
     tc |-> FALSE, failed |-> TRUE, failed_lower |-> TRUE, xct |-> TRUE, glyph |-> FALSE,
     errtag |-> FALSE, bracket |-> FALSE, ts |-> FALSE, executed |-> FALSE, failure |-> FALSE,
     name |-> <<>>, p1 |-> <<>>, loc |-> <<"F.swift", "4">>,
     p2 |-> <<>>,
     p3 |-> <<>>, p3alt |-> <<>>, p4 |-> <<>>,
     p5 |-> TRUE, exec |-> <<>>],
    [text |-> "Executed 3 tests, with 1 failure (0 unexpected)",
     tc |-> FALSE, failed |-> FALSE, failed_lower |-> FALSE, xct |-> FALSE, glyph |-> FALSE,
     errtag |-> FALSE, bracket |-> FALSE, ts |-> FALSE, executed |-> TRUE, failure |-> TRUE,
     name |-> <<>>, p1 |-> <<>>, loc |-> <<>>,
     p2 |-> <<>>,
     p3 |-> <<>>, p3alt |-> <<>>, p4 |-> <<>>,
     p5 |-> FALSE, exec |-> <<"3", "1">>],
    [text |-> "** TEST FAILED **",
     tc |-> FALSE, failed |-> FALSE, failed_lower |-> TRUE, xct |-> FALSE, glyph |-> FALSE,
     errtag |-> FALSE, bracket |-> FALSE, ts |-> FALSE, executed |-> FALSE, failure |-> FALSE,
     name |-> <<>>, p1 |-> <<>>, loc |-> <<>>,
     p2 |-> <<>>,
     p3 |-> <<>>, p3alt |-> <<>>, p4 |-> <<>>,
     p5 |-> FALSE, exec |-> <<>>],
    [text |-> "ok",
     tc |-> FALSE, failed |-> FALSE, failed_lower |-> FALSE, xct |-> FALSE, glyph |-> FALSE,
     errtag |-> FALSE, bracket |-> FALSE, ts |-> FALSE, executed |-> FALSE, failure |-> FALSE,
     name |-> <<>>, p1 |-> <<>>, loc |-> <<>>,
     p2 |-> <<>>,
     p3 |-> <<>>, p3alt |-> <<>>, p4 |-> <<>>,
     p5 |-> FALSE, exec |-> <<>>]}

\* One entry of the failures list.  A message is the parts it is formatted of.
FailureRecord(class, method, message, file, line) ==
    [test_class |-> class, test_method |-> method, message |-> message,
     file_path |-> file, line_number |-> line]

\* What one line of the log comes to: a key and a record, or nothing.
NoFinding == [key |-> <<>>, rec |-> FailureRecord("", "", <<>>, "", "")]

\* The smallest index of a non-empty set of indexes.
FirstOf(S) == CHOOSE j \in S : \A k \in S : j <= k

\* x or 'Unknown'
OrUnknown(x) == IF x = "" THEN "Unknown" ELSE x

\* Pattern 1: "Test Case '-[Class method]' failed", details from the next lines.
Pattern1(lines, i) ==
    LET line == lines[i]
        window == (i + 1)..Min2(i + 4, Len(lines))
        msgs == {j \in window : lines[j].xct \/ lines[j].failed_lower}
        locs == {j \in window : lines[j].loc # <<>>}
        file_path == IF locs = {} THEN "" ELSE lines[FirstOf(locs)].loc[1]
        line_num == IF locs = {} THEN "" ELSE lines[FirstOf(locs)].loc[2]
        message == IF msgs = {} THEN <<"Test", line.p1[1], line.p1[2], "failed">>
                   ELSE <<lines[FirstOf(msgs)].text>>
    IN  IF line.p1 = <<>> THEN NoFinding
        ELSE [key |-> <<"", line.p1[1], line.p1[2], file_path, line_num, "">>,
              rec |-> FailureRecord(line.p1[1], line.p1[2], message, file_path, line_num)]

\* Pattern 2: "File.swift:N: error: -[Class method] : message"
Pattern2(lines, i) ==
    LET m == lines[i].p2
    IN  IF m = <<>> THEN NoFinding
        ELSE [key |-> <<"", m[3], m[4], m[1], m[2], "">>,
              rec |-> FailureRecord(m[3], m[4], <<m[5]>>, m[1], m[2])]

\* Pattern 3: the failure glyph, the test name from the five lines before.
Pattern3(lines, i) ==
    LET line == lines[i]
        file_path == IF line.p3 # <<>> THEN line.p3[1] ELSE ""
        line_num == IF line.p3 # <<>> THEN line.p3[2] ELSE ""
        failure_msg == IF line.p3 # <<>> THEN line.p3[3] ELSE line.p3alt[1]
        names == {j \in Max2(1, i - 5)..(i - 1) :
                     (lines[j].tc \/ lines[j].bracket) /\ lines[j].name # <<>>}
        test_class == IF names = {} THEN "" ELSE lines[FirstOf(names)].name[1]
        test_method == IF names = {} THEN "" ELSE lines[FirstOf(names)].name[2]
    IN  IF line.p3 = <<>> /\ line.p3alt = <<>> THEN NoFinding
        ELSE [key |-> <<"", OrUnknown(test_class), OrUnknown(test_method),
                        file_path, line_num, "">>,
              rec |-> FailureRecord(OrUnknown(test_class), OrUnknown(test_method),
                                    <<failure_msg>>, file_path, line_num)]

\* Pattern 4: "Test Suite 'Class' failed", the summary from the next two lines.
Pattern4(lines, i) ==
    LET m == lines[i].p4
        sums == {j \in (i + 1)..Min2(i + 2, Len(lines)) :
                    lines[j].executed /\ lines[j].failure}
        failure_msg == IF sums = {} THEN <<"Test suite", m[1], "failed">>
                       ELSE <<lines[FirstOf(sums)].text>>
    IN  IF m = <<>> THEN NoFinding
        ELSE [key |-> <<"Suite", m[1], "", "", "", "">>,
              rec |-> FailureRecord(m[1], "Suite", failure_msg, "", "")]

\* Pattern 5: "XCTAssert... failed", the test name from the ten lines before;
\* its key ends with the first 50 characters of the message, and every line
\* of the model is shorter.
Pattern5(lines, i) ==
    LET line == lines[i]
        names == {j \in Max2(1, i - 10)..(i - 1) :
                     lines[j].tc /\ lines[j].name # <<>>}
        test_class == IF names = {} THEN "" ELSE lines[FirstOf(names)].name[1]
        test_method == IF names = {} THEN "" ELSE lines[FirstOf(names)].name[2]
        file_path == IF line.loc = <<>> THEN "" ELSE line.loc[1]
        line_num == IF line.loc = <<>> THEN "" ELSE line.loc[2]
    IN  IF test_class = "" /\ test_method = "" THEN NoFinding
        ELSE [key |-> <<"5", OrUnknown(test_class), OrUnknown(test_method),
                        file_path, line_num, line.text>>,
              rec |-> FailureRecord(OrUnknown(test_class), OrUnknown(test_method),
                                    <<line.text>>, file_path, line_num)]

\* The if/elif chain of the loop body: the first test a line passes decides.
FindingAt(lines, i) ==
    LET line == lines[i]
    IN  IF line.tc /\ line.failed THEN Pattern1(lines, i)
        ELSE IF line.errtag THEN Pattern2(lines, i)
        ELSE IF line.glyph THEN Pattern3(lines, i)
        ELSE IF line.ts /\ line.failed THEN Pattern4(lines, i)
        ELSE IF line.p5 THEN Pattern5(lines, i)
        ELSE NoFinding

\* while i < len(lines): failures and seen_failures as the loop leaves them.
RECURSIVE ScanLog(_, _, _, _)
ScanLog(lines, i, failures, seen_failures) ==
    IF i > Len(lines) THEN failures
    ELSE LET found == FindingAt(lines, i)
         IN  IF found.key = <<>> \/ found.key \in seen_failures
             THEN ScanLog(lines, i + 1, failures, seen_failures)
             ELSE ScanLog(lines, i + 1, Append(failures, found.rec),
                          seen_failures \cup {found.key})

\* "failed" in build_log.lower() or the glyph in build_log
OnlyLowerCaseFailed(lines) ==
    \E j \in 1..Len(lines) : lines[j].failed \/ lines[j].glyph

FailureIndicated(lines) ==
    \E j \in 1..Len(lines) : lines[j].failed_lower \/ lines[j].glyph

\* The record made for a log that names no single failure.
Synthesized(lines) ==
    LET sums == {j \in 1..Len(lines) :
                    /\ lines[j].executed /\ lines[j].failure
                    /\ lines[j].exec # <<>>}
    IN  IF sums # {}
        THEN FailureRecord("TestSuite", "Multiple",
                <<"Executed", lines[FirstOf(sums)].exec[1], "tests with",
                  lines[FirstOf(sums)].exec[2],
                  "failures (details not available in log)">>, "", "")
        ELSE FailureRecord("Unknown", "Unknown",
                <<"Tests failed (specific details could not be extracted from log)">>,
                "", "")

extract_test_failures_from_log(lines) ==
    IF lines = <<>> THEN <<>>
    ELSE LET failures == ScanLog(lines, 1, <<>>, {})
         IN  IF failures = <<>> /\ FailureIndicated(lines)
             THEN <<Synthesized(lines)>>
             ELSE failures

\* return failures
FailureList(failures) ==
    [kind |-> "failures", status |-> <<>>, lines |-> failures, n |-> Len(failures)]

\* One call of extract_test_failures_from_log.
FailuresCall ==
    /\ tool = "extract_test_failures_from_log"
    /\ pc = "call"
    /\ result' = FailureList(extract_test_failures_from_log(build_log))
    /\ pc' = "done"
    /\ UNCHANGED <<cfgVars, buildVars, argVars, now, fs, ide, scriptVars, locVars,
                   located, extVars, countVars>>

\* The test logs of the model: the empty log and every log of a few lines.
TestLogs == UNION {[1..n -> TestLogLines] : n \in 0..MaxTestLogLines}

InitFailures ==
    /\ tool = "extract_test_failures_from_log"
    /\ pc = "call"
    /\ build_log \in TestLogs
    /\ include_warnings = PyNone
    /\ report = NoReport
    /\ DefaultConfig
    /\ now = 0
    /\ fs = TreeWith({}, <<>>)
    /\ ide = NoIde
    /\ wait_seconds = 0
    /\ max_lines = PyNone
    /\ regex_filter = PyNone
    /\ start_timestamp = 0
    /\ FreshScript
    /\ FreshLocator
    /\ FreshExtractor
    /\ FreshCounts
    /\ result = NoResult
    /\ AllowedProject

NextFailures == FailuresCall

SpecFailures == InitFailures /\ [][NextFailures]_vars

\* ------------------------------------------------------------ build_project

TxtBuildSucceeded ==
    <<"B", "u", "i", "l", "d", " ", "s", "u", "c", "c", "e", "e", "d", "e", "d", ".">>

\* return errors_output
BuildErrors(rep) ==
    [kind |-> "errors_output", status |-> <<>>, lines |-> rep.listed,
     n |-> rep.total_errors]

\* The parameter checks, the path validation and the script handed over.
BuildCall ==
    /\ tool = "build_project"
    /\ pc = "call"
    /\ IF include_warnings.t \notin {"none", "bool"}
       THEN /\ result' = Raise("InvalidParameterError")
            /\ pc' = "done"
            /\ UNCHANGED <<invoked_at, script, script_calls>>
       ELSE IF validate_and_normalize_project_path(path_arg).raised # ""
       THEN /\ result' = Raise(validate_and_normalize_project_path(path_arg).raised)
            /\ pc' = "done"
            /\ UNCHANGED <<invoked_at, script, script_calls>>
       ELSE /\ invoked_at' = now
            /\ script' = "repeat"
            /\ script_calls' = script_calls + 1
            /\ pc' = "script"
            /\ UNCHANGED result
    /\ UNCHANGED <<cfgVars, buildVars, argVars, now, fs, ide, start_timestamp,
                   poll_i, output, completed, final_status, locVars, located,
                   extVars, sleeps, scans, cli_calls>>

\* repeat / if completed of actionResult is true then exit repeat / delay 0.5
\* / end repeat, and the script's return.  The loop has no count: past
\* MaxBuildPolls passes the model no longer tells one pass from the next.
BuildScriptPoll ==
    /\ tool = "build_project"
    /\ pc = "script_poll"
    /\ IF ide.completed
       THEN /\ output' = IF ide.status = StSucceeded THEN TxtBuildSucceeded
                         ELSE Strip(JoinLines(build_log))
            /\ pc' = "parse"
            /\ UNCHANGED <<now, poll_i>>
       ELSE IF poll_i < MaxBuildPolls
       THEN /\ poll_i' = poll_i + 1
            /\ now' = now + (poll_i % 2)
            /\ UNCHANGED <<output, pc>>
       ELSE UNCHANGED <<output, pc, now, poll_i>>
    /\ UNCHANGED <<cfgVars, buildVars, argVars, fs, ide, start_timestamp,
                   invoked_at, script, completed, final_status, locVars,
                   located, extVars, countVars, result>>

\* raise XCodeMCPError(f"Build failed to start ...")
BuildScriptFailed ==
    /\ tool = "build_project"
    /\ pc = "script_failed"
    /\ result' = Raise("XCodeMCPError")
    /\ pc' = "done"
    /\ UNCHANGED <<cfgVars, buildVars, argVars, now, fs, ide, scriptVars,
                   locVars, located, extVars, countVars>>

\* if output == "Build succeeded.": ... else the classifier's report
BuildReturn ==
    /\ tool = "build_project"
    /\ pc = "parse"
    /\ IF output = TxtBuildSucceeded
       THEN /\ result' = Message("Build succeeded with 0 errors")
            /\ UNCHANGED report
       ELSE /\ report' = extract_build_errors_and_warnings(
                            Split(output, "\n"), include_warnings,
                            BUILD_WARNINGS_FORCED, BUILD_WARNINGS_ENABLED)
            /\ result' = BuildErrors(report')
    /\ pc' = "done"
    /\ UNCHANGED <<cfgVars, build_log, include_warnings, argVars, now, fs, ide,
                   scriptVars, locVars, located, extVars, countVars>>

\* build_log is the log the build of the behaviour leaves if it fails.
InitBuild ==
    /\ tool = "build_project"
    /\ pc = "call"
    /\ now = CallTime
    /\ fs = TreeWith({}, <<>>)
    /\ ide = NoIde
    /\ wait_seconds = 0
    /\ max_lines = PyNone
    /\ regex_filter = PyNone
    /\ start_timestamp = 0
    /\ FreshScript
    /\ FreshLocator
    /\ FreshExtractor
    /\ FreshCounts
    /\ DefaultConfig
    /\ build_log \in ShortLogs
    /\ include_warnings \in {PyNone, PyBool(TRUE), PyBool(FALSE), PyInt(1)}
    /\ report = NoReport
    /\ result = NoResult
    /\ AllowedProject

BuildSteps ==
    \/ BuildCall
    \/ ScriptStart
    \/ BuildScriptPoll
    \/ BuildScriptFailed
    \/ BuildReturn

NextBuild == BuildSteps \/ IdeComplete

\* The tool and osascript keep running; nothing obliges the IDE's action to
\* come to an end.
SpecBuild == InitBuild /\ [][NextBuild]_vars /\ WF_vars(BuildSteps)

\* ------------------------------------------- xcode_mcp.py: the allowed roots

\* The entries of XCODEMCP_ALLOWED_FOLDERS, split at ":": two absolute folders
\* (one written with a trailing slash), a relative one, one with a ".."
\* component and an empty entry.
EnvFolders ==
    <<RootA \o <<"/">>, RootB, <<"r">>, <<"/", "a", "/", ".", ".", "/", "c">>, <<>>>>

\* The folders whose presence on disk the behaviours vary.
ConfigFolders == {RootA, RootB}

\* os.path.exists(folder) and os.path.isdir(folder); fs maps each of
\* ConfigFolders to its directory entry, every other path is absent.
IsDir(files, folder) == folder \in DOMAIN files /\ files[folder].exists

get_allowed_folders(files) ==
    {RStripSlash(EnvFolders[i]) : i \in
        {j \in 1..Len(EnvFolders) :
            LET folder == RStripSlash(EnvFolders[j])
            IN  /\ folder # <<>>
                /\ folder[1] = "/"
                /\ ~Contains(folder, <<".", ".">>)
                /\ IsDir(files, folder)}}

\* xcode_mcp.py's is_path_allowed: the answer, and the value the global has
\* when it returns.
xcode_mcp_is_path_allowed(text) ==
    IF text = <<>> THEN [allowed |-> FALSE, folders |-> ALLOWED_FOLDERS]
    ELSE LET folders == IF ALLOWED_FOLDERS = {} THEN get_allowed_folders(fs)
                        ELSE ALLOWED_FOLDERS
             normal == RStripSlash(text)
         IN  [allowed |-> \E allowed_folder \in folders :
                             \/ normal = allowed_folder
                             \/ StartsWith(normal, allowed_folder \o <<"/">>),
              folders |-> folders]

\* A project that exists lies in folders that exist.
OnDisk(arg) ==
    arg.exists =>
        \A folder \in ConfigFolders :
            StartsWith(arg.text, folder \o <<"/">>) => IsDir(fs, folder)

configFrame ==
    <<pc, now, ide, wait_seconds, max_lines, regex_filter,
      scriptVars, locVars, located, extVars, countVars, buildVars,
      BUILD_WARNINGS_ENABLED, BUILD_WARNINGS_FORCED>>

\* The tool reinit_dirs.
reinit_dirs ==
    /\ tool' = "reinit_dirs"
    /\ ALLOWED_FOLDERS' = get_allowed_folders(fs)
    /\ result' = Message("Allowed folders reinitialized")
    /\ UNCHANGED <<fs, path_arg, configFrame>>

\* The tool get_project_hierarchy, up to the listing of the source files.
get_project_hierarchy ==
    \E arg \in ProjectPaths :
        /\ OnDisk(arg)
        /\ tool' = "get_project_hierarchy"
        /\ path_arg' = arg
        /\ IF Strip(arg.text) = <<>>
           THEN /\ result' = Raise("InvalidParameterError")
                /\ UNCHANGED ALLOWED_FOLDERS
           ELSE LET answer == xcode_mcp_is_path_allowed(arg.text)
                IN  /\ ALLOWED_FOLDERS' = answer.folders
                    /\ result' = IF ~answer.allowed THEN Raise("AccessDeniedError")
                                 ELSE IF ~arg.exists THEN Raise("InvalidParameterError")
                                 ELSE Message("Project contains source files")
        /\ UNCHANGED <<fs, configFrame>>

\* Outside the server a folder is created or removed.
FolderChange ==
    \E folder \in ConfigFolders :
        /\ fs' = [fs EXCEPT ![folder] = IF fs[folder].exists THEN NoFile
                                        ELSE FileAt(0, 0)]
        /\ UNCHANGED <<tool, path_arg, result, ALLOWED_FOLDERS, configFrame>>

\* The server after `ALLOWED_FOLDERS = get_allowed_folders()` of the main
\* block, about to serve.
InitConfig ==
    /\ tool = ""
    /\ pc = "serving"
    /\ now = CallTime
    /\ fs \in [ConfigFolders -> {NoFile, FileAt(0, 0)}]
    /\ ide = NoIde
    /\ wait_seconds = 0
    /\ max_lines = PyInt(1)
    /\ regex_filter = PyNone
    /\ start_timestamp = 0
    /\ FreshScript
    /\ FreshLocator
    /\ FreshExtractor
    /\ FreshCounts
    /\ DefaultConfig
    /\ FreshBuild
    /\ result = NoResult
    /\ ALLOWED_FOLDERS = get_allowed_folders(fs)
    /\ path_arg = PathArg(<<>>, FALSE, <<>>)

NextConfig == reinit_dirs \/ get_project_hierarchy \/ FolderChange

SpecConfig == InitConfig /\ [][NextConfig]_vars

\* --------------------------------- __main__.py: run_project_tests' report

\* One more line a test log may hold: the summary of a run without failures.
PassingSummaryLine ==
    [text |-> "Executed 2 tests, with 0 failures (0 unexpected)",
     tc |-> FALSE, failed |-> FALSE, failed_lower |-> FALSE, xct |-> FALSE, glyph |-> FALSE,
     errtag |-> FALSE, bracket |-> FALSE, ts |-> FALSE, executed |-> TRUE, failure |-> TRUE,
     name |-> <<>>, p1 |-> <<>>, loc |-> <<>>,
     p2 |-> <<>>,
     p3 |-> <<>>, p3alt |-> <<>>, p4 |-> <<>>,
     p5 |-> FALSE, exec |-> <<"2", "0">>]

\* The lines the logs of the reported runs are made of.  None begins with a
\* header prefix of the script's return.
ReportLogLines ==
    {l \in TestLogLines : l.text \in {"Test Case '-[C m]' failed (0.1 seconds).",
                                      "Executed 3 tests, with 1 failure (0 unexpected)",
                                      "** TEST FAILED **", "ok"}}
    \cup {PassingSummaryLine}

MaxReportLogLines == 2

ReportLogs == UNION {[1..n -> ReportLogLines] : n \in 0..MaxReportLogLines}

\* int(match.group(1)) for the numbers written in the lines of the model.
AsNumber(digits) ==
    CASE digits = "0" -> 0 [] digits = "1" -> 1 [] digits = "2" -> 2 [] digits = "3" -> 3

\* One line of the "Failures:" section: the prefix it starts with and the rest.
SectionLine(tag, rest) == [tag |-> tag, rest |-> rest]

ParseFromLogLine == SectionLine("", "PARSE_FROM_LOG")

\* The test failures collection of the result, as the IDE hands it over: its
\* entries, or an error on access.
TestFailureCollections ==
    {[error |-> FALSE, items |-> <<>>],
     [error |-> TRUE, items |-> <<>>],
     [error |-> FALSE, items |-> << [message |-> "boom", file_path |-> "", line |-> ""] >>],
     [error |-> FALSE, items |-> << [message |-> "boom", file_path |-> "F.swift", line |-> "4"] >>]}

\* testStatus is "failed" or testStatus contains "fail"
ContainsFail(status) == status = StFailed \/ Contains(status, <<"f", "a", "i", "l">>)

\* failureMessages as the script builds it, line by line.
RECURSIVE FailureMessageLines(_)
FailureMessageLines(items) ==
    IF items = <<>> THEN <<>>
    ELSE LET failure == Head(items)
         IN  <<SectionLine("FAILURE: ", failure.message)>>
             \o (IF failure.file_path # "" THEN <<SectionLine("FILE: ", failure.file_path)>>
                 ELSE <<>>)
             \o (IF failure.line # "" THEN <<SectionLine("LINE: ", failure.line)>> ELSE <<>>)
             \o <<SectionLine("---", "")>>
             \o FailureMessageLines(Tail(items))

\* The script's return by its sections: the header values, the lines
\* between "Failures:" and "---LOG---" (the last one is empty) and the log.
ReportScriptOutput(status, is_completed, collection, log) ==
    [status |-> status,
     completed |-> is_completed,
     failure_count |-> IF collection.error THEN 0 ELSE Len(collection.items),
     failures_text |->
        (IF ~collection.error /\ collection.items # <<>>
         THEN FailureMessageLines(collection.items)
         ELSE IF ContainsFail(status) THEN <<ParseFromLogLine>> ELSE <<>>)
        \o <<SectionLine("", "")>>,
     log |-> log]

\* failures_text.strip().split('\n')
RECURSIVE StripBlankLines(_)
StripBlankLines(lines) ==
    IF lines # <<>> /\ lines[Len(lines)] = SectionLine("", "")
    THEN StripBlankLines(SubSeq(lines, 1, Len(lines) - 1))
    ELSE lines

\* current_failure = {} and one made by a "FAILURE: " line
NoCurrentFailure == FailureRecord("", "", <<>>, "", "")

\* The loop of parse_test_failures and the append after it.
RECURSIVE ParseFailureLines(_, _, _)
ParseFailureLines(lines, failures, current_failure) ==
    IF lines = <<>>
    THEN IF current_failure # NoCurrentFailure /\ current_failure.message # <<"">>
         THEN Append(failures, current_failure) ELSE failures
    ELSE LET line == Head(lines)
             rest == Tail(lines)
             open == current_failure # NoCurrentFailure
         IN  IF line.tag = "FAILURE: "
             THEN ParseFailureLines(rest,
                     IF open THEN Append(failures, current_failure) ELSE failures,
                     FailureRecord("", "", <<line.rest>>, "", ""))
             ELSE IF line.tag = "FILE: "
             THEN ParseFailureLines(rest, failures,
                     IF open THEN [current_failure EXCEPT !.file_path = line.rest]
                     ELSE current_failure)
             ELSE IF line.tag = "LINE: "
             THEN ParseFailureLines(rest, failures,
                     IF open THEN [current_failure EXCEPT !.line_number = line.rest]
                     ELSE current_failure)
             ELSE IF line.tag = "ERROR: "
             THEN ParseFailureLines(rest,
                     IF failures = <<>>
                     THEN <<FailureRecord("", "", <<line.rest>>, "", "")>> ELSE failures,
                     current_failure)
             ELSE IF line.tag = "---"
             THEN ParseFailureLines(rest,
                     IF open THEN Append(failures, current_failure) ELSE failures,
                     NoCurrentFailure)
             ELSE IF line.rest # "" /\ ~open /\ line.rest # "Failures:"
             THEN ParseFailureLines(rest,
                     Append(failures, FailureRecord("", "", <<line.rest>>, "", "")),
                     current_failure)
             ELSE ParseFailureLines(rest, failures, current_failure)

parse_test_failures(failures_text) ==
    IF StripBlankLines(failures_text) = <<>> THEN <<>>
    ELSE ParseFailureLines(StripBlankLines(failures_text), <<>>, NoCurrentFailure)

\* stats of extract_test_statistics: the loop over the lines of the log.  In
\* the lines of the model that hold "Executed" and "tests" the two numbers
\* its expressions find are those of line.exec.
RECURSIVE StatisticsOf(_, _)
StatisticsOf(lines, stats) ==
    IF lines = <<>> THEN stats
    ELSE LET line == Head(lines)
         IN  IF line.executed /\ line.exec # <<>>
             THEN StatisticsOf(Tail(lines),
                     [total |-> AsNumber(line.exec[1]),
                      failed |-> AsNumber(line.exec[2]),
                      passed |-> AsNumber(line.exec[1]) - AsNumber(line.exec[2])])
             ELSE StatisticsOf(Tail(lines), stats)

NoStatistics == [total |-> 0, passed |-> 0, failed |-> 0]

extract_test_statistics(lines) == StatisticsOf(lines, NoStatistics)

\* "PARSE_FROM_LOG" in failures_str and build_log_str
ParseFromLog(failures_text, log) ==
    /\ \E i \in 1..Len(failures_text) : failures_text[i] = ParseFromLogLine
    /\ log # <<>>

\* data['metrics'] of the bundle: what xcresulttool printed of it.
BundleMetrics ==
    {[count |-> FALSE, failed_count |-> FALSE, testsCount |-> 0, testsFailedCount |-> 0],
     [count |-> TRUE, failed_count |-> FALSE, testsCount |-> 2, testsFailedCount |-> 0],
     [count |-> TRUE, failed_count |-> TRUE, testsCount |-> 2, testsFailedCount |-> 0],
     [count |-> TRUE, failed_count |-> TRUE, testsCount |-> 2, testsFailedCount |-> 1]}

\* stats after the metrics were read.
WithMetrics(stats, metrics) ==
    LET total == IF metrics.count THEN metrics.testsCount ELSE stats.total
    IN  IF metrics.failed_count
        THEN [total |-> total, failed |-> metrics.testsFailedCount,
              passed |-> total - metrics.testsFailedCount]
        ELSE [stats EXCEPT !.total = total]

\* The first line of the response.
OverallResult(status, stats) ==
    IF status = StSucceeded \/ (stats.total > 0 /\ stats.failed = 0)
    THEN "All tests passed"
    ELSE IF status = StFailed \/ stats.failed > 0 THEN "Tests failed"
    ELSE "Status"

\* The response: its first line, the status, the failures it lists.
TestReport(headline, status, failures) ==
    [kind |-> headline, status |-> status, lines |-> failures, n |-> Len(failures)]

\* run_applescript(script): the wait is over and the script returns.
ReportScript ==
    /\ tool = "run_project_tests"
    /\ pc = "report_script"
    /\ output' = ReportScriptOutput(ide.status, ide.completed, ide.failures, ide.log)
    /\ script_calls' = script_calls + 1
    /\ pc' = "report_parse"
    /\ UNCHANGED <<cfgVars, buildVars, argVars, now, fs, ide, start_timestamp,
                   invoked_at, script, poll_i, completed, final_status, locVars,
                   located, extVars, sleeps, scans, cli_calls, result>>

\* From the parse of the output to the return.
ReportReturn ==
    /\ tool = "run_project_tests"
    /\ pc = "report_parse"
    /\ final_status' = output.status
    /\ completed' = output.completed
    /\ build_log' = output.log
    /\ LET from_log == ParseFromLog(output.failures_text, output.log)
           failures == IF from_log THEN extract_test_failures_from_log(output.log)
                       ELSE parse_test_failures(output.failures_text)
           failure_count == IF from_log THEN Len(failures) ELSE output.failure_count
           parsed == extract_test_statistics(output.log)
           stats == IF failure_count > 0 /\ parsed.failed = 0
                    THEN [parsed EXCEPT !.failed = failure_count] ELSE parsed
       IN  /\ IF stats.total = 0 /\ output.completed
              THEN /\ now' = now + 2
                   /\ sleeps' = sleeps + 1
                   /\ scans' = scans + 1
                   /\ \E listing \in Listings :
                         located' = find_xcresult_bundle(TheProject, listing, fs)
                   /\ IF located' = None
                      THEN /\ result' = TestReport(OverallResult(output.status, stats),
                                                   output.status, failures)
                           /\ UNCHANGED cli_calls
                      ELSE /\ cli_calls' = cli_calls + 1
                           /\ \E metrics \in BundleMetrics :
                                 result' = TestReport(
                                     OverallResult(output.status, WithMetrics(stats, metrics)),
                                     output.status, failures)
              ELSE /\ result' = IF ~output.completed
                                THEN TestsDidNotComplete(wait_seconds, output.status)
                                ELSE TestReport(OverallResult(output.status, stats),
                                                output.status, failures)
                   /\ UNCHANGED <<now, sleeps, scans, cli_calls, located>>
    /\ pc' = "done"
    /\ UNCHANGED <<cfgVars, include_warnings, report, argVars, fs, ide,
                   start_timestamp, invoked_at, script, poll_i, output, locVars,
                   extVars, script_calls>>

\* The statuses a finished or unfinished test action may show.
StError == <<"e", "r", "r", "o", "r">>

\* run_project_tests waiting for completion, at the end of the script's wait:
\* the IDE holds the action's status, its failures collection and its log.
InitReport ==
    /\ tool = "run_project_tests"
    /\ pc = "report_script"
    /\ now = CallTime
    /\ fs \in TestTrees
    /\ \E st \in {StSucceeded, StFailed, StError, StRunning},
          collection \in TestFailureCollections, log \in ReportLogs :
          ide = [started |-> TRUE, completed |-> st # StRunning, status |-> st,
                 failures |-> collection, log |-> log]
    /\ wait_seconds = MaxActionWait
    /\ max_lines = PyNone
    /\ regex_filter = PyNone
    /\ start_timestamp = 0
    /\ FreshScript
    /\ FreshLocator
    /\ FreshExtractor
    /\ FreshCounts
    /\ DefaultConfig
    /\ FreshBuild
    /\ result = NoResult
    /\ AllowedProject

NextReport == ReportScript \/ ReportReturn

SpecReport == InitReport /\ [][NextReport]_vars

\* ================================================================== claims

\* The bundles of the project under every matching directory.
AllBundles(kind, f) ==
    UNION {XcresultFiles(d, kind, f) : d \in {e \in DirIds : DirMatches(e, ProjectName(TheProject))}}

\* The path a standalone locator call returned.
Returned == result.lines[1]

\* C1: whenever wait_for_xcresult_after_timestamp returns a path, the creation
\* time and the modification time it read for that bundle are both >= the
\* start timestamp, so a bundle with either time before it is never returned.
C1_ReturnedBundleIsFresh ==
    (tool = "wait_for_xcresult_after_timestamp" /\ pc = "done" /\ Returned # None) =>
        /\ Returned = xcresult_path
        /\ create_time >= start_timestamp
        /\ mod_time >= start_timestamp
        /\ fs[Returned].ctime >= start_timestamp
        /\ fs[Returned].mtime >= start_timestamp

\* A path was returned although a bundle of an earlier run, newer by
\* modification time than the returned one, was there.
C1_Witness ==
    /\ tool = "wait_for_xcresult_after_timestamp"
    /\ pc = "done"
    /\ Returned # None
    /\ \E b \in LaunchBundles :
          /\ fs[b].exists
          /\ fs[b].ctime < start_timestamp
          /\ fs[b].mtime > fs[Returned].mtime

\* C2: the bundle whose content a run_project or run_project_tests call
\* returns has creation and modification time >= the time the call handed
\* its action to the IDE, so run_project_tests never returns results read
\* from a bundle an earlier test run wrote.
C2_ReturnedContentIsOfThisCall ==
    (/\ tool \in {"run_project", "run_project_tests"}
     /\ pc = "done"
     /\ result.kind \in {"console_output", "test results"}) =>
        /\ located # None
        /\ fs[located].ctime >= invoked_at
        /\ fs[located].mtime >= invoked_at

\* C3: find_xcresult_for_project and find_xcresult_bundle return the bundle
\* with the greatest modification time over all matching subdirectories,
\* whatever the enumeration order.
C3_GloballyNewest ==
    (tool \in {"find_xcresult_for_project", "find_xcresult_bundle"} /\ pc = "done") =>
        LET kind == IF tool = "find_xcresult_bundle" THEN "Test" ELSE "Launch"
        IN  AllBundles(kind, fs) # {} =>
               /\ Returned # None
               /\ \A b \in AllBundles(kind, fs) : fs[Returned].mtime >= fs[b].mtime

\* The launch script returned that the IDE reported the run completed.
IdeReportedCompletion == StartsWith(output, TxtDone \o <<"|">>)

\* C4: if the IDE reports within wait_seconds that the run completed and no
\* fresh bundle is found before the lookup times out, run_project returns the
\* "Run completed with status: <status>. Could not find xcresult file"
\* message; "Still running after N seconds" is returned only when the IDE
\* did not report completion within the wait budget.
C4_CompletedRunIsReportedCompleted ==
    (tool = "run_project" /\ pc = "done" /\ output # <<>>) =>
        /\ (IdeReportedCompletion /\ located = None) =>
              /\ result.kind = "Run completed with status"
              /\ result.lines = <<"Could not find xcresult file">>
              /\ result.status = ide.status
        /\ result.kind = "Still running after" => ~IdeReportedCompletion

\* The content lines of the last CLI output that survive the filter.
Surviving == ConsoleLines(cli_stdout.items, regex_filter).lines

\* C5: when run_project finds a fresh bundle and the CLI extraction succeeds,
\* the text it returns consists only of content lines that match the
\* caller's regex_filter (all non-empty lines without a filter) and has at
\* most the caller's max_lines lines.
C5_RunOutputIsFilteredAndCapped ==
    (tool = "run_project" /\ pc = "done" /\ located # None /\ cli_stdout.json) =>
        IF Surviving = <<>>
        THEN /\ result.kind = "Run completed with status"
             /\ result.lines = <<"No console output found">>
        ELSE /\ result.kind = "console_output"
             /\ Len(result.lines) <= max_lines.n
             /\ \A i \in 1..Len(result.lines) :
                   \E j \in 1..Len(Surviving) : result.lines[i] = Surviving[j]

\* C6: run_project_tests called with max_wait_seconds = 0 builds a script
\* without a completion-poll loop and, when the script succeeds, returns the
\* "Tests have been started" confirmation; the call sleeps at no point, makes
\* no find_xcresult_bundle lookup and runs no xcresulttool.
C6_ZeroWaitTestsOnlyStart ==
    (tool = "run_project_tests" /\ wait_seconds = 0) =>
        /\ script \in {"", "return Tests started successfully"}
        /\ poll_i = 0
        /\ sleeps = 0
        /\ scans = 0
        /\ cli_calls = 0
        /\ (pc = "done" /\ output # <<>>) =>
              result = Message("Tests have been started")

\* A call with max_wait_seconds = 0 whose script started the tests has
\* returned.
C6_Witness ==
    /\ tool = "run_project_tests"
    /\ wait_seconds = 0
    /\ pc = "done"
    /\ ide.started
    /\ output = TxtStarted
    /\ script_calls = 1
    /\ result.kind = "Tests have been started"

\* C7: run_project called with wait_seconds = 0 returns right after the
\* launch script returns: no scan of the file system, no sleep, no log
\* extraction.
C7_ZeroWaitReturnsAfterLaunch ==
    (tool = "run_project" /\ wait_seconds = 0) =>
        /\ scans = 0
        /\ sleeps = 0
        /\ cli_calls = 0
        /\ pc \notin {"wait_test", "wait_scan", "wait_stat", "wait_sleep", "cli",
                      "extracted"}

\* C8: when more than max_lines content lines survive the filter,
\* get_runtime_output returns exactly the last max_lines of them in their
\* order, and it never returns more than max_lines content lines.
C8_ReturnsTheLastLines ==
    (/\ tool = "get_runtime_output"
     /\ pc = "done"
     /\ result.kind = "Console output from most recent run") =>
        /\ Len(result.lines) <= max_lines.n
        /\ Len(Surviving) > max_lines.n =>
              result.lines = TakeLast(Surviving, max_lines.n)

\* C9: with a non-empty invalid regex_filter and at least one non-empty
\* content item, the extractor signals InvalidParameterError to its caller
\* and get_runtime_output surfaces that error, not an extraction failure.
C9_InvalidPatternIsParameterError ==
    (/\ tool = "get_runtime_output"
     /\ pc = "done"
     /\ cli_stdout.json
     /\ regex_filter.t = "str"
     /\ Strip(regex_filter.s) # <<>>
     /\ ReError(regex_filter.s)
     /\ NonEmptyContents(cli_stdout.items) # <<>>) =>
        /\ ext.msg = "raise"
        /\ ext.cause = "InvalidParameterError"
        /\ result.kind = "InvalidParameterError"

\* The listed lines that are warning lines.
ListedWarnings == Len(report.listed) - Len(ErrorLines(report.listed))

\* C10: the report lists at most 25 lines; with 25 or more error lines in
\* the log no warning line is listed; otherwise every error line is listed
\* and min(total_warnings, 25 - total_errors) warning lines are.
C10_DisplayCap ==
    (tool = "extract_build_errors_and_warnings" /\ pc = "done") =>
        LET log_errors == ErrorLines(OutputLines(build_log))
            total_errors == Len(log_errors)
            total_warnings ==
                Len(WarningLines(OutputLines(build_log),
                                 ShowWarnings(BUILD_WARNINGS_FORCED, include_warnings,
                                              BUILD_WARNINGS_ENABLED)))
            listed_errors == ErrorLines(report.listed)
            listed_warnings == Len(report.listed) - Len(listed_errors)
        IN  /\ Len(report.listed) <= 25
            /\ total_errors >= 25 => listed_warnings = 0
            /\ total_errors < 25 =>
                  /\ listed_warnings = Min2(total_warnings, 25 - total_errors)
                  /\ listed_errors = log_errors

\* A log with fewer than 25 error lines and more warning lines than the
\* cap leaves room for: some warnings are listed, some are not.
C10_Witness ==
    /\ tool = "extract_build_errors_and_warnings"
    /\ pc = "done"
    /\ report.total_errors > 0
    /\ report.total_errors < 25
    /\ report.total_errors + report.total_warnings > 25
    /\ ListedWarnings > 0
    /\ ListedWarnings < report.total_warnings

\* The lines of the log that name a warning and no error.
LogWarnings ==
    LET OnlyWarning(line) == IsWarningLine(line) /\ ~IsErrorLine(line)
    IN  Len(SelectSeq(OutputLines(build_log), OnlyWarning))

\* Whether the call reports warnings at all.
WarningsOn ==
    ShowWarnings(BUILD_WARNINGS_FORCED, include_warnings, BUILD_WARNINGS_ENABLED)

\* The error lines of the log, and the warning lines the call reports.
LogErrors == Len(SelectSeq(OutputLines(build_log), IsErrorLine))

ReportedWarnings == IF WarningsOn THEN LogWarnings ELSE 0

\* C11: a forced setting decides whether warnings are reported whatever
\* include_warnings is; with nothing forced an explicit include_warnings
\* decides; with include_warnings None the default BUILD_WARNINGS_ENABLED does.
C11_WarningsResolutionOrder ==
    (tool = "extract_build_errors_and_warnings" /\ pc = "done") =>
        LET decided ==
                IF BUILD_WARNINGS_FORCED = PyBool(TRUE) THEN TRUE
                ELSE IF BUILD_WARNINGS_FORCED = PyBool(FALSE) THEN FALSE
                ELSE IF include_warnings = PyBool(TRUE) THEN TRUE
                ELSE IF include_warnings = PyBool(FALSE) THEN FALSE
                ELSE BUILD_WARNINGS_ENABLED
        IN  /\ report.total_warnings = IF decided THEN LogWarnings ELSE 0
            /\ decided = WarningsOn

\* Warnings are forced off, the caller asks for them, the log holds some,
\* and the report names none.
C11_Witness ==
    /\ tool = "extract_build_errors_and_warnings"
    /\ pc = "done"
    /\ BUILD_WARNINGS_FORCED = PyBool(FALSE)
    /\ include_warnings = PyBool(TRUE)
    /\ LogWarnings > 0
    /\ report.total_warnings = 0

\* C12: the first line of the report depends only on which buckets are
\* non-empty (both, errors only, warnings only, neither), and among the
\* listed lines every error line precedes every warning line; a log of one
\* error line and one warning line lists both with warnings on and only the
\* error line with warnings off.
C12_HeadlineByBuckets ==
    (tool = "extract_build_errors_and_warnings" /\ pc = "done") =>
        LET errors == LogErrors
            warnings == LogWarnings
            on == WarningsOn
            listed == report.listed
        IN  /\ report.headline =
                  IF errors > 0 /\ on /\ warnings > 0
                  THEN "Build failed with E error(s) and W warning(s)."
                  ELSE IF errors > 0 THEN "Build failed with E error(s)."
                  ELSE IF on /\ warnings > 0 THEN "Build completed with W warning(s)."
                  ELSE "Build failed (no specific errors or warnings found in output)"
            /\ \A i \in 1..(Len(listed) - 1) :
                  IsErrorLine(listed[i + 1]) => IsErrorLine(listed[i])
            /\ (Len(build_log) = 2 /\ errors = 1 /\ warnings = 1) =>
                  LET e == SelectSeq(build_log, IsErrorLine)
                      w == SelectSeq(build_log, LAMBDA l : ~IsErrorLine(l))
                  IN  listed = IF on THEN e \o w ELSE e

\* The log is a warning line followed by an error line, warnings are on, and
\* the report lists the error line first.
C12_Witness ==
    /\ tool = "extract_build_errors_and_warnings"
    /\ pc = "done"
    /\ Len(build_log) = 2
    /\ ~IsErrorLine(build_log[1]) /\ IsWarningLine(build_log[1])
    /\ IsErrorLine(build_log[2])
    /\ report.headline = "Build failed with E error(s) and W warning(s)."
    /\ report.listed = <<build_log[2], build_log[1]>>

\* C13: the counts in the header are the numbers of error and warning lines
\* of the whole log even when fewer lines are listed; the header carries a
\* "Showing ..." note exactly when more than 25 lines were classified, and
\* the counts the note names are the numbers of lines actually listed.
C13_TrueTotalsAndNote ==
    (tool = "extract_build_errors_and_warnings" /\ pc = "done") =>
        LET errors == LogErrors
            warnings == ReportedWarnings
            listed_errors == Len(ErrorLines(report.listed))
        IN  errors + warnings > 0 =>
               /\ report.total_errors = errors
               /\ report.total_warnings = warnings
               /\ (report.note # "") <=> (errors + warnings > 25)
               /\ report.note # "" =>
                     /\ Len(report.listed) = 25
                     /\ report.note_errors = listed_errors
                     /\ report.note_warnings = Len(report.listed) - listed_errors

\* Errors and warnings together exceed the cap: the header names the totals,
\* the note the smaller numbers listed.
C13_Witness ==
    /\ tool = "extract_build_errors_and_warnings"
    /\ pc = "done"
    /\ report.note = "Showing N error(s) and first M warning(s)."
    /\ report.total_errors + report.total_warnings > 25
    /\ report.note_warnings > 0
    /\ report.note_warnings < report.total_warnings
    /\ report.note_errors = report.total_errors

\* C14: whenever the extractor dropped content lines because more than
\* max_lines survived the filter, the response says so (a truncation note or
\* the pre-cap total): it differs from the response given for an output of
\* exactly the returned lines that was not capped.
C14_CappedResponseSaysSo ==
    (/\ tool = "get_runtime_output"
     /\ pc = "done"
     /\ ext.ok
     /\ Len(Surviving) > max_lines.n) =>
        /\ result.kind = "Console output from most recent run"
        /\ result # ConsoleReport(result.lines)

\* The records the five patterns produce for the log.
PatternRecords == ScanLog(build_log, 1, <<>>, {})

\* C15: for every non-empty log that contains "failed" in any letter case or
\* the failure glyph, extract_test_failures_from_log returns at least one
\* record; when no pattern produced a record it returns exactly one
\* synthesized record, built from the first "Executed N tests, with M
\* failures" line if there is one and else the generic "Tests failed" one.
C15_FailureNeverSilent ==
    (/\ tool = "extract_test_failures_from_log"
     /\ pc = "done"
     /\ build_log # <<>>
     /\ \E j \in 1..Len(build_log) :
           build_log[j].failed_lower \/ build_log[j].glyph) =>
        /\ result.n >= 1
        /\ PatternRecords = <<>> =>
              LET sums == {j \in 1..Len(build_log) : build_log[j].exec # <<>>}
                  only == result.lines[1]
              IN  /\ result.n = 1
                  /\ only.file_path = "" /\ only.line_number = ""
                  /\ IF sums # {}
                     THEN /\ only.test_class = "TestSuite"
                          /\ only.test_method = "Multiple"
                          /\ only.message[2] = build_log[FirstOf(sums)].exec[1]
                          /\ only.message[4] = build_log[FirstOf(sums)].exec[2]
                     ELSE /\ only.test_class = "Unknown"
                          /\ only.test_method = "Unknown"
                          /\ only.message =
                                <<"Tests failed (specific details could not be extracted from log)">>

\* A log whose only sign of failure is in capital letters gets the generic
\* record.
C15_Witness ==
    /\ tool = "extract_test_failures_from_log"
    /\ pc = "done"
    /\ build_log # <<>>
    /\ \A j \in 1..Len(build_log) : ~build_log[j].failed /\ ~build_log[j].glyph
    /\ \E j \in 1..Len(build_log) : build_log[j].failed_lower
    /\ result.n = 1
    /\ result.lines[1].test_class = "Unknown"

\* C16: for a log in which two textually distinct lines, recognized by the
\* same or by different patterns, refer to the same (class, method, file,
\* line) failure, exactly one record is returned for that key.
C16_OneRecordPerFailure ==
    (tool = "extract_test_failures_from_log" /\ pc = "done") =>
        \A i, j \in 1..result.n :
            (/\ result.lines[i].test_class = result.lines[j].test_class
             /\ result.lines[i].test_method = result.lines[j].test_method
             /\ result.lines[i].file_path = result.lines[j].file_path
             /\ result.lines[i].line_number = result.lines[j].line_number) => i = j

\* The launch script gave up waiting: its final return, not the "done" one.
RunTimedOut ==
    /\ tool = "run_project"
    /\ pc = "done"
    /\ StartsWith(output, TxtFail \o <<"|">>)

\* The test script's wait loop ran out with the tests still going.
TestsTimedOut ==
    /\ tool = "run_project_tests"
    /\ pc = "done"
    /\ wait_seconds > 0
    /\ Contains(output, TxtCompletedPrefix \o TxtFalse)

\* The locator's budget ran out with no bundle accepted.
LocatorTimedOut ==
    /\ tool = "wait_for_xcresult_after_timestamp"
    /\ pc = "done"
    /\ located = None

C17_RunStillRunning ==
    RunTimedOut => result = StillRunning(wait_seconds, final_status)

C17_TestsDidNotComplete ==
    TestsTimedOut => result = TestsDidNotComplete(wait_seconds, final_status)

C17_LocatorEndsWithNone ==
    LocatorTimedOut =>
        /\ result = PathResult(None)
        /\ sleeps <= wait_seconds
        /\ now = start_timestamp + sleeps

\* C17: exceeding a caller-supplied wait budget never raises an error: when
\* the action has not completed within the budget, run_project returns a
\* "Still running" status string and run_project_tests a "did not complete
\* within N seconds" string, and when no valid bundle appears before its
\* timeout the locator ends after finitely many 1-second polls with None.
C17_TimeoutsAreResults ==
    /\ C17_RunStillRunning
    /\ C17_TestsDidNotComplete
    /\ C17_LocatorEndsWithNone

\* The one script of the call ended with an error before its action began.
ScriptFailed ==
    /\ tool \in {"run_project", "run_project_tests"}
    /\ pc = "done"
    /\ script_calls = 1
    /\ ~ide.started

\* C18: the IDE action script is issued at most once per tool call; when that
\* script fails, the call ends with the tool error XCodeMCPError, without a
\* second invocation and without any artifact lookup or extraction.
C18_ScriptFailureIsToolError ==
    /\ script_calls <= 1
    /\ ScriptFailed =>
          /\ result = Raise("XCodeMCPError")
          /\ scans = 0
          /\ cli_calls = 0

\* The CLI exited 0 and what it printed was not JSON.
MalformedCliOutput ==
    /\ pc = "done"
    /\ cli_calls >= 1
    /\ ext.cause = "JSONDecodeError"

\* C19: when the companion CLI exits 0 but its output is not valid JSON, no
\* tool raises: get_runtime_output and run_project each return a string
\* result instead of raising XCodeMCPError.
C19_MalformedOutputDegrades ==
    (MalformedCliOutput /\ tool \in OutputTools \cup {"run_project"}) =>
        result.kind \notin {"XCodeMCPError", "InvalidParameterError",
                            "JSONDecodeError"}

\* The call has gone past validation: a script was handed to the IDE, or
\* DerivedData scanned, or the CLI run.
ActedOnProject == script_calls > 0 \/ scans > 0 \/ cli_calls > 0

\* C20: no IDE action, artifact scan or CLI extraction is performed for a
\* project whose path, including the symlink-resolved path that is handed to
\* the IDE, lies outside every allowed root: such a call ends with
\* AccessDeniedError before any of these steps.
C20_NoActionOutsideAllowlist ==
    LET asked == Strip(path_arg.text)
        handed == path_arg.realpath
        outside == ~is_path_allowed(asked) \/ ~is_path_allowed(handed)
        well_formed == /\ asked # <<>>
                       /\ EndsWith(asked, TxtXcodeproj) \/ EndsWith(asked, TxtXcworkspace)
    IN  (tool = "run_project" /\ outside) =>
            /\ ~ActedOnProject
            /\ (pc = "done" /\ well_formed) => result = Raise("AccessDeniedError")

C22_OtherFailureIsFinal ==
    /\ [](cli_outcome = "other_failure" =>
            /\ pc # "cli"
            /\ ext = ExtFail("Failed to extract console logs", "")
            /\ cli_calls = attempt + 1
            /\ sleeps = attempt)
    /\ [][cli_outcome = "other_failure" =>
            cli_calls' = cli_calls /\ sleeps' = sleeps /\ now' = now]_vars

\* The third attempt, after two retries, ends with such an exit.
C22_Witness ==
    /\ tool = "extract_console_logs_from_xcresult"
    /\ cli_outcome = "other_failure"
    /\ cli_calls = 3
    /\ attempt = 2
    /\ pc = "extracted"
    /\ ~ext.ok

\* C23: classification is a function of the log and the resolved warnings
\* setting alone: a line is in the error bucket iff it contains "error" in
\* any letter case, in the warning bucket iff it does not, contains
\* "warning" in any letter case and warnings are enabled; no line is in both,
\* each bucket keeps log order, and the same log and setting give the same
\* split, counts and cap whatever flags and parameter produced the setting.
C23_ClassificationIsAFunction ==
    (tool = "extract_build_errors_and_warnings" /\ pc = "done") =>
        LET Has(line, word) ==
                \E i \in 1..(Len(line) - Len(word) + 1) :
                    \A k \in 1..Len(word) : LowerChar(line[i + k - 1]) = word[k]
            on == WarningsOn
            InErrors(line) == Has(line, <<"e", "r", "r", "o", "r">>)
            InWarnings(line) ==
                /\ ~Has(line, <<"e", "r", "r", "o", "r">>)
                /\ Has(line, <<"w", "a", "r", "n", "i", "n", "g">>)
                /\ on
            errors == SelectSeq(build_log, InErrors)
            warnings == SelectSeq(build_log, InWarnings)
        IN  /\ report.listed = errors \o warnings
            /\ errors \o warnings # <<>> =>
                  /\ report.total_errors = Len(errors)
                  /\ report.total_warnings = Len(warnings)
            /\ \A i \in 1..Len(build_log) :
                  ~(InErrors(build_log[i]) /\ InWarnings(build_log[i]))
            /\ report = extract_build_errors_and_warnings(
                            build_log, PyNone, PyNone, on)
            /\ report = extract_build_errors_and_warnings(
                            build_log, PyBool(on), PyNone, ~on)
            /\ report = extract_build_errors_and_warnings(
                            build_log, PyBool(~on), PyBool(on), ~on)

\* A line holding both words in capitals and a warning-only line, warnings
\* on: the first is counted as an error, the second as a warning.
C23_Witness ==
    /\ tool = "extract_build_errors_and_warnings"
    /\ pc = "done"
    /\ WarningsOn
    /\ Len(build_log) = 3
    /\ build_log[1] = <<"W", "A", "R", "N", "I", "N", "G">>
    /\ build_log[2] = <<"w", "a", "r", "n", "i", "n", "g", " ", "E", "r", "r", "o", "r">>
    /\ build_log[3] = <<"W", "A", "R", "N", "I", "N", "G">>
    /\ report.listed = <<build_log[2], build_log[1], build_log[3]>>
    /\ report.total_errors = 1
    /\ report.total_warnings = 2

\* C24: every tool call terminates after a bounded number of poll iterations
\* whatever the IDE does: the completion poll inside the action script of
\* build_project, run_project and run_project_tests stops after at most a
\* number of iterations fixed by the wait budget, even if the IDE action
\* never reports completion.
C24_EveryCallTerminates ==
    /\ <>(pc = "done")
    /\ [](tool \in {"run_project", "run_project_tests"} =>
            poll_i <= Max2(wait_seconds, 0))

\* C25: after startup no tool invocation changes the process-wide
\* configuration: every step of a tool leaves the allowlist and the warnings
\* default and forced flags at the values they had.
C25_ConfigurationIsReadOnly ==
    [][/\ ALLOWED_FOLDERS' = ALLOWED_FOLDERS
       /\ BUILD_WARNINGS_ENABLED' = BUILD_WARNINGS_ENABLED
       /\ BUILD_WARNINGS_FORCED' = BUILD_WARNINGS_FORCED]_vars

\* Line i of the log matches "XCTAssert<word> failed" and none of the tests
\* of patterns 1 to 4.
GenericAssertLine(i) ==
    /\ build_log[i].p5
    /\ ~(build_log[i].tc /\ build_log[i].failed)
    /\ ~build_log[i].errtag
    /\ ~build_log[i].glyph
    /\ ~(build_log[i].ts /\ build_log[i].failed)

\* The "Test Case" lines with a -[Class method] name among the up to ten
\* lines before line i.
ContextLines(i) ==
    {j \in Max2(1, i - 10)..(i - 1) : build_log[j].tc /\ build_log[j].name # <<>>}

\* C26: every log line that matches "XCTAssert<word> failed" and is not
\* claimed by patterns 1 to 4 has a failure record in the returned list: its
\* message is the line, its class and method come from a "Test Case" line
\* among the up to ten preceding lines and are "Unknown" when there is none
\* (a record with the same dedup key produced earlier is that same record).
C26_GenericAssertRecorded ==
    (tool = "extract_test_failures_from_log" /\ pc = "done") =>
        \A i \in 1..Len(build_log) :
            GenericAssertLine(i) =>
                \E k \in 1..result.n :
                    /\ result.lines[k].message = <<build_log[i].text>>
                    /\ IF ContextLines(i) = {}
                       THEN /\ result.lines[k].test_class = "Unknown"
                            /\ result.lines[k].test_method = "Unknown"
                       ELSE \E j \in ContextLines(i) :
                               /\ result.lines[k].test_class = build_log[j].name[1]
                               /\ result.lines[k].test_method = build_log[j].name[2]

\* wait_for_xcresult_after_timestamp has returned.
LocatorFinished == tool = "wait_for_xcresult_after_timestamp" /\ pc = "done"

\* The project's Launch log directories hold a bundle whose creation and
\* modification times are both >= the start timestamp.
ValidBundlePresent ==
    \E b \in AllBundles("Launch", fs) :
        fs[b].ctime >= start_timestamp /\ fs[b].mtime >= start_timestamp

\* C27: if at the time of some scan made by wait_for_xcresult_after_timestamp
\* before its timeout the project's Launch log directories hold a bundle with
\* creation and modification time >= the start timestamp, the call returns a
\* bundle with both times >= the start timestamp and not None, whatever
\* stale bundles are there with it.  Stated for the calls during which no
\* other process writes, where the bundles at every scan are those of the
\* final state.
C27_ValidBundleIsFound ==
    (LocatorFinished /\ scans > 0 /\ ValidBundlePresent) =>
        /\ Returned # None
        /\ create_time >= start_timestamp
        /\ mod_time >= start_timestamp

\* The lines of the script's output before the "---LOG---" line.
RECURSIVE HeaderLines(_)
HeaderLines(lines) ==
    IF lines = <<>> \/ StartsWith(Head(lines), TxtLogMark) THEN <<>>
    ELSE <<Head(lines)>> \o HeaderLines(Tail(lines))

\* run_project_tests has parsed the text its polling script returned.
TestsOutputParsed ==
    /\ tool = "run_project_tests"
    /\ pc \in {"tests_sleep", "tests_cli", "done"}
    /\ StartsWith(output, TxtStatusPrefix)

\* C28: the status and completed values run_project_tests derives are those
\* of the "Status:" and "Completed:" header lines: they equal what the lines
\* before the "---LOG---" marker alone give, so no line of the build log can
\* change them and two outputs with the same header and different logs give
\* the same values.
C28_LogCannotChangeStatus ==
    TestsOutputParsed =>
        LET header == ParseTestLines(HeaderLines(Split(output, "\n")), <<>>, FALSE)
        IN  /\ final_status = header.status
            /\ completed = header.completed

\* run_project_tests of __main__.py has returned its report of a finished run.
ReportReturned ==
    /\ tool = "run_project_tests"
    /\ pc = "done"
    /\ result.kind \in {"All tests passed", "Tests failed", "Status"}

\* C29: the marker PARSE_FROM_LOG is never shown to the caller: for every
\* script output, the one with an empty build log included, no failure entry
\* of the response has PARSE_FROM_LOG as its message.
C29_MarkerNeverShown ==
    ReportReturned =>
        \A k \in 1..result.n : result.lines[k].message # <<"PARSE_FROM_LOG">>

\* C30: whenever the IDE reports the status "failed" for a completed test
\* run, the response does not say "All tests passed", whatever the summary
\* lines of the build log and the failures collection hold.
C30_FailedRunNeverPasses ==
    (ReportReturned /\ ide.completed /\ ide.status = StFailed) =>
        result.kind # "All tests passed"

====
